---- MODULE Spec2Model ----
(***************************************************************************)
(* Model of the classroom analysis server                                  *)
(* (src/classroom-ai-system/ai_server): the in-memory MemoryStore, the     *)
(* two FatigueAnalyzer implementations (main.py and models/fatigue_net.py) *)
(* and the ConnectionManager with its websocket endpoint and the deferred  *)
(* save_and_broadcast task.                                                *)
(*                                                                         *)
(* Specifications sharing the variables:                                   *)
(*   StoreSpec      add_history / get_history on the MemoryStore           *)
(*   LatestSpec     set_latest calls and status queries                    *)
(*   FatigueSpec    a stream of predict calls on both FatigueAnalyzers     *)
(*   IsolationSpec  two students classified in any interleaved order       *)
(*   ScoreSpec      the stateless analyzers applied to every input         *)
(*   HubSpec        websocket endpoints, analysis cycles and broadcasts    *)
(*                  interleaved on one event loop                          *)
(*   KeepaliveSpec  HubSpec with one cycle, inbound messages and timeouts  *)
(*   CycleSpec      POST /analyze with batches of student records, the     *)
(*                  deferred tasks and one subscriber                      *)
(*   RosterSpec     the aggregation of analyze_classroom applied to every  *)
(*                  short list of statuses                                 *)
(*   QuerySpec      status and history queries beside cycles, a            *)
(*                  subscriber and the fatigue analyzer                    *)
(*   StreakSpec     one student submitting the same record cycle after     *)
(*                  cycle                                                  *)
(*   SaveSpec       cycles and their save_and_broadcast tasks, enough to   *)
(*                  wrap the history ring                                  *)
(*   VideoSpec      the video analysis service of the backend script:      *)
(*                  uploads, analyze and control requests and the          *)
(*                  simulate_analysis tasks on one event loop              *)
(*                                                                         *)
(* Fatigue samples are modelled in hundredths (ear 0.2 is 20, a ratio 0.3  *)
(* is 30 per cent); a ratio a/b > p/100 is compared as a*100 > p*b. Scores *)
(* are tenths of a point, angles whole degrees; the mean of scores is an   *)
(* exact fraction and a course id the sequence of its characters. In       *)
(* HubSpec, KeepaliveSpec and QuerySpec a snapshot is identified by the    *)
(* number of the analysis cycle that produced it; the wall-clock           *)
(* timestamps the store attaches are left out.                             *)
(***************************************************************************)
EXTENDS Integers, Sequences, FiniteSets, Bags, TLC

VARIABLES
    \* MemoryStore (main.py 50-84)
    classroom_data,   \* classroom_id -> latest snapshot (a dict: only the keys set)
    history_data,     \* classroom_id -> deque(maxlen=max_history) (a defaultdict)
    response,         \* what the last HTTP query returned (NoResponse between queries)
    added,            \* history: per classroom every entry ever passed to add_history
    \* FatigueAnalyzer of main.py (181-205)
    ear_history,      \* student_id -> deque(maxlen=30) of ear samples (a defaultdict)
    \* FatigueAnalyzer of models/fatigue_net.py
    net_ear_history,  \* student_id -> deque(maxlen=history_size) of ear samples
    net_mar_history,  \* student_id -> deque(maxlen=10) of mar samples
    fatigue,          \* the last predict call: its arguments and what each returned
    ear_samples,      \* history: per student every ear submitted, in order
    mar_samples,      \* history: per student every mar submitted, in order
    steps,            \* how often the submitted ear or mar changed value so far
    \* ConnectionManager (main.py 90-115) and the tasks of the event loop
    active_connections, \* classroom_id -> list of websockets (a defaultdict)
    ws_pc,            \* per websocket: where its websocket_endpoint task stands
    ws_room,          \* per websocket: the classroom_id of its endpoint, once open
    ws_frame,         \* per websocket: the frame its endpoint is sending, or <<>>
    dead,             \* the websockets whose client is gone: send and receive raise
    sent,             \* history: per websocket the bag of frames delivered to it
    tasks,            \* the save_and_broadcast tasks, by number of the cycle
    send_failed,      \* history: the websockets a send to which has raised
    returned,         \* history: the broadcast that returned in the last step, if any
    keepalives,       \* history: the inbound messages and keepalive timeouts, as <<websocket, event>>
    \* the video analysis service (src/后端.py)
    analysis_states,  \* video_id -> the state dict of an uploaded video
    sim_tasks,        \* the simulate_analysis tasks created so far, in order
    video_response    \* what the last request to the video service was answered

storeVars == <<classroom_data, history_data, response, added>>
fatigueVars == <<ear_history, net_ear_history, net_mar_history, fatigue,
                 ear_samples, mar_samples, steps>>

hubVars == <<active_connections, ws_pc, ws_room, ws_frame, dead, sent, tasks,
             send_failed, returned, keepalives>>

vars == <<classroom_data, history_data, response, added,
          ear_history, net_ear_history, net_mar_history, fatigue,
          ear_samples, mar_samples, steps,
          active_connections, ws_pc, ws_room, ws_frame, dead, sent, tasks,
          send_failed, returned, keepalives,
          analysis_states, sim_tasks, video_response>>

videoVars == <<analysis_states, sim_tasks, video_response>>

Classrooms == {"c1", "c2"}

\* ------------------------------------------------------------------ bounds
\* store.max_history (MAX_HISTORY, 100 by default), scaled down
MaxHistory == 3
\* add_history calls of one run of StoreSpec: max_history + 5 and a few more
MaxAdds == MaxHistory + 6

\* analysis cycles (POST /analyze) of one run of HubSpec
MaxCycles == 2
\* inbound messages and keepalive timeouts of one run
MaxKeepalives == 2
\* predict calls of one run of IsolationSpec, after the warm-up
MaxInterleaved == 3
\* POST /analyze requests of one run of CycleSpec
MaxRequests == 2
\* set_latest calls of one run of LatestSpec
MaxSets == 3
\* the head pose angles of ScoreSpec run from -MaxAngle to MaxAngle degrees
MaxAngle == 50
\* the longest tag list calculate_engagement is called with
MaxTags == 2
\* the longest list of student statuses the aggregation is applied to
MaxRoster == 4
\* the predict calls beside the queries
MaxSamples == 1
\* the consecutive cycles that carry the same student
MaxStreak == 15

\* ------------------------------------------------------------- python data
Max(a, b) == IF a >= b THEN a ELSE b
Min(a, b) == IF a <= b THEN a ELSE b

\* the last k items of a sequence, all of it when k exceeds its length
LastK(seq, k) == SubSeq(seq, Max(Len(seq) - k, 0) + 1, Len(seq))

\* seq[start:] of Python, start any integer
PySliceFrom(seq, start) ==
    LET n == Len(seq)
        s == IF start < 0 THEN Max(n + start, 0) ELSE Min(start, n)
    IN  SubSeq(seq, s + 1, n)

\* deque(maxlen=maxlen).append(x): a full deque drops its oldest item
DequeAppendKeepsOldest(q, x, maxlen) ==
    IF Len(q) >= maxlen THEN q ELSE Append(q, x)

DequeAppendUnbounded(q, x, maxlen) == Append(q, x)

DequeAppend(q, x, maxlen) ==
    IF maxlen = 0 THEN <<>>
    ELSE IF Len(q) >= maxlen THEN Append(Tail(q), x)
    ELSE Append(q, x)

\* d[k] of a defaultdict whose factory returns an empty deque or list
DefaultGet(d, k) == IF k \in DOMAIN d THEN d[k] ELSE <<>>

\* d[k] = v of a dict
DictSet(d, k, v) == [x \in DOMAIN d \cup {k} |-> IF x = k THEN v ELSE d[x]]

\* ------------------------------------------------------------ MemoryStore
max_history == MaxHistory

\* limit's default in MemoryStore.get_history and in GET /history
DefaultLimit == 20

\* no HTTP response at hand
NoResponse == [kind |-> "none"]

\* a set_latest that merges the new snapshot into the stored one
SetLatestMerge(classroom_id, data) ==
    LET old == IF classroom_id \in DOMAIN classroom_data
               THEN classroom_data[classroom_id] ELSE data
    IN  classroom_data' =
            DictSet(classroom_data, classroom_id,
                    [k \in DOMAIN old \cup DOMAIN data |->
                        IF k \in DOMAIN data THEN data[k] ELSE old[k]])

\* a save_and_broadcast that broadcasts without storing the latest snapshot
SetLatestSkipped(classroom_id, data) ==
    UNCHANGED classroom_data

set_latest(classroom_id, data) ==
    classroom_data' = DictSet(classroom_data, classroom_id, data)

\* a store whose latest snapshot is never found
GetLatestNever(classroom_id) == <<>>

\* dict.get: <<>> stands for None, <<entry>> for a stored entry
get_latest(classroom_id) ==
    IF classroom_id \in DOMAIN classroom_data
    THEN <<classroom_data[classroom_id]>> ELSE <<>>

\* an add_history that turns the new entry away once the ring is full
AddHistoryUnlessFull(classroom_id, data) ==
    history_data' =
        DictSet(history_data, classroom_id,
                IF Len(DefaultGet(history_data, classroom_id)) >= max_history
                THEN DefaultGet(history_data, classroom_id)
                ELSE Append(DefaultGet(history_data, classroom_id), data))

add_history(classroom_id, data) ==
    history_data' = DictSet(history_data, classroom_id,
                        DequeAppend(DefaultGet(history_data, classroom_id),
                                    data, max_history))

get_history(classroom_id, limit) ==
    PySliceFrom(DefaultGet(history_data, classroom_id), -limit)

\* ---------------------------------------------------------- FatigueAnalyzer
Students == {"s1", "s2"}

\* the sum of the first n items of a sequence
RECURSIVE SumFirst(_, _)
SumFirst(seq, n) == IF n = 0 THEN 0 ELSE seq[n] + SumFirst(seq, n - 1)

SumSeq(seq) == SumFirst(seq, Len(seq))

\* np.sum(array < threshold): the number of positions holding a smaller value
CountBelow(seq, threshold) ==
    Cardinality({i \in 1 .. Len(seq) : seq[i] < threshold})

\* main.py: the literals of FatigueAnalyzer
MainEarMaxLen == 30
MainMinSamples == 10
MainEarClosed == 20
MainYawnMar == 50
MainDrowsyRatio == 70
MainTiredRatio == 30

\* models/fatigue_net.py: the defaults and thresholds of FatigueAnalyzer.__init__
history_size == 30
NetMarMaxLen == 10
NetMinSamples == 10
ear_closed_threshold == 20
mar_yawn_threshold == 50
perclos_drowsy == 30
perclos_tired == 15

\* main.py FatigueAnalyzer.predict after the append: hist is the student's window
MainLevelShortWarmup(hist, mar) ==
    IF Len(hist) < MainMinSamples - 1 THEN "alert"
    ELSE LET closed_frames == CountBelow(hist, MainEarClosed)
             is_yawning == mar > MainYawnMar
         IN  IF closed_frames * 100 > MainDrowsyRatio * Len(hist) THEN "drowsy"
             ELSE IF closed_frames * 100 > MainTiredRatio * Len(hist) \/ is_yawning
                  THEN "tired"
             ELSE "alert"

\* a predict that looks at the yawn before the closed-eye ratio
MainLevelYawnFirst(hist, mar) ==
    IF Len(hist) < MainMinSamples THEN "alert"
    ELSE LET closed_frames == CountBelow(hist, MainEarClosed)
             is_yawning == mar > MainYawnMar
         IN  IF is_yawning THEN "tired"
             ELSE IF closed_frames * 100 > MainDrowsyRatio * Len(hist) THEN "drowsy"
             ELSE IF closed_frames * 100 > MainTiredRatio * Len(hist) THEN "tired"
             ELSE "alert"

MainLevel(hist, mar) ==
    IF Len(hist) < MainMinSamples THEN "alert"
    ELSE LET closed_frames == CountBelow(hist, MainEarClosed)
             is_yawning == mar > MainYawnMar
         IN  IF closed_frames * 100 > MainDrowsyRatio * Len(hist) THEN "drowsy"
             ELSE IF closed_frames * 100 > MainTiredRatio * Len(hist) \/ is_yawning
                  THEN "tired"
             ELSE "alert"

\* fatigue_net.py FatigueAnalyzer.predict after the two appends; the mean of the
\* mar window exceeds the threshold iff its sum exceeds threshold * length
NetLevelCurrentMar(ears, mars) ==
    IF Len(ears) < NetMinSamples THEN "alert"
    ELSE LET closed_frames == CountBelow(ears, ear_closed_threshold)
             is_yawning == mars[Len(mars)] > mar_yawn_threshold
         IN  IF closed_frames * 100 > perclos_drowsy * Len(ears) THEN "drowsy"
             ELSE IF closed_frames * 100 > perclos_tired * Len(ears) \/ is_yawning
                  THEN "tired"
             ELSE "alert"

NetLevel(ears, mars) ==
    IF Len(ears) < NetMinSamples THEN "alert"
    ELSE LET closed_frames == CountBelow(ears, ear_closed_threshold)
             is_yawning == SumSeq(mars) > mar_yawn_threshold * Len(mars)
         IN  IF closed_frames * 100 > perclos_drowsy * Len(ears) THEN "drowsy"
             ELSE IF closed_frames * 100 > perclos_tired * Len(ears) \/ is_yawning
                  THEN "tired"
             ELSE "alert"

NoCall == [student |-> "none"]

FatigueIdle ==
    /\ ear_history = <<>>
    /\ net_ear_history = <<>>
    /\ net_mar_history = <<>>
    /\ fatigue = NoCall
    /\ ear_samples = [s \in Students |-> <<>>]
    /\ mar_samples = [s \in Students |-> <<>>]
    /\ steps = 0

\* analyzers that keep one window for all students instead of one per student_id
PredictSharedWindow(s, ear, mar) ==
    LET h == DequeAppend(DefaultGet(ear_history, "all"), ear, MainEarMaxLen)
        e == DequeAppend(DefaultGet(net_ear_history, "all"), ear, history_size)
        m == DequeAppend(DefaultGet(net_mar_history, "all"), mar, NetMarMaxLen)
    IN  /\ ear_history' = DictSet(ear_history, "all", h)
        /\ net_ear_history' = DictSet(net_ear_history, "all", e)
        /\ net_mar_history' = DictSet(net_mar_history, "all", m)
        /\ fatigue' = [student |-> s, ear |-> ear, mar |-> mar,
                       main |-> MainLevel(h, mar), net |-> NetLevel(e, m)]
        /\ ear_samples' = [ear_samples EXCEPT ![s] = Append(@, ear)]
        /\ mar_samples' = [mar_samples EXCEPT ![s] = Append(@, mar)]

\* One classification of student s: both analyzers are handed the same sample.
Predict(s, ear, mar) ==
    LET h == DequeAppend(DefaultGet(ear_history, s), ear, MainEarMaxLen)
        e == DequeAppend(DefaultGet(net_ear_history, s), ear, history_size)
        m == DequeAppend(DefaultGet(net_mar_history, s), mar, NetMarMaxLen)
    IN  /\ ear_history' = DictSet(ear_history, s, h)
        /\ net_ear_history' = DictSet(net_ear_history, s, e)
        /\ net_mar_history' = DictSet(net_mar_history, s, m)
        /\ fatigue' = [student |-> s, ear |-> ear, mar |-> mar,
                       main |-> MainLevel(h, mar), net |-> NetLevel(e, m)]
        /\ ear_samples' = [ear_samples EXCEPT ![s] = Append(@, ear)]
        /\ mar_samples' = [mar_samples EXCEPT ![s] = Append(@, mar)]

\* -------------------------------------------------------- ConnectionManager
\* The websockets of the model and the classrooms each may subscribe to (the
\* classroom_id of the URL /ws/{classroom_id} it opens).
Sockets == {"w1", "w2"}
RoomsOf(w) == IF w = "w1" THEN {"c1"} ELSE Classrooms

\* list.remove(x) guarded by "x in list": the first occurrence goes
RECURSIVE ListRemove(_, _)
ListRemove(list, x) ==
    IF list = <<>> THEN <<>>
    ELSE IF Head(list) = x THEN Tail(list)
    ELSE <<Head(list)>> \o ListRemove(Tail(list), x)

Elems(list) == {list[i] : i \in DOMAIN list}

\* ConnectionManager.disconnect: the map after it (the lookup creates the key)
disconnect(conns, websocket, classroom_id) ==
    DictSet(conns, classroom_id, ListRemove(DefaultGet(conns, classroom_id), websocket))

\* a closing loop that also drops the classroom's key once its list is empty
DisconnectAllPrunes(conns, disconnected, classroom_id) ==
    LET left == [c \in DOMAIN conns |->
                    IF c = classroom_id
                    THEN SelectSeq(conns[c],
                                   LAMBDA w : \A i \in DOMAIN disconnected :
                                                 disconnected[i] # w)
                    ELSE conns[c]]
    IN  [c \in {k \in DOMAIN left : left[k] # <<>>} |-> left[c]]

\* broadcast's closing loop: disconnect every connection of the list "disconnected"
RECURSIVE DisconnectAll(_, _, _)
DisconnectAll(conns, disconnected, classroom_id) ==
    IF disconnected = <<>> THEN conns
    ELSE DisconnectAll(disconnect(conns, Head(disconnected), classroom_id),
                       Tail(disconnected), classroom_id)

\* no broadcast returned in the last step
NoReturn == [task |-> 0]

\* the record of a task that is not inside broadcast
Outside(pc, classroom_id, data) ==
    [pc |-> pc, classroom |-> classroom_id, data |-> data,
     idx |-> 0, cur |-> "none", disconnected |-> <<>>,
     before |-> <<>>, raised |-> {}, delivered |-> {},
     failed_before |-> {}, interfered |-> FALSE]

HubIdle ==
    /\ active_connections = <<>>
    /\ ws_pc = [w \in Sockets |-> "idle"]
    /\ ws_room = [w \in Sockets |-> "none"]
    /\ ws_frame = [w \in Sockets |-> <<>>]
    /\ dead = {}
    /\ sent = [w \in Sockets |-> EmptyBag]
    /\ tasks = <<>>
    /\ send_failed = {}
    /\ returned = NoReturn
    /\ keepalives = <<>>

\* no request has reached the video service
NoVideoResponse == [request |-> 0]

\* the module-level dicts of src/后端.py at start-up, and no task
VideoIdle ==
    /\ analysis_states = <<>>
    /\ sim_tasks = <<>>
    /\ video_response = NoVideoResponse

\* A running broadcast of classroom c sees its list changed by another task.
Interfere(tk, c, changed) ==
    [t \in DOMAIN tk |->
        IF changed /\ tk[t].pc = "sending" /\ tk[t].classroom = c
        THEN [tk[t] EXCEPT !.interfered = TRUE] ELSE tk[t]]

\* broadcast's for loop takes its next connection (the list iterator holds the
\* index idx of the next item and reads the list as it is now), suspending in
\* send_text, or ends: then every connection of "disconnected" is removed and
\* broadcast returns. task is the task's record, conns the connection map.
LoopEnds(task, conns) == task.idx >= Len(DefaultGet(conns, task.classroom))

LoopNextTask(task, conns) ==
    IF LoopEnds(task, conns)
    THEN Outside("done", task.classroom, task.data)
    ELSE [task EXCEPT !.pc = "sending",
                      !.cur = DefaultGet(conns, task.classroom)[task.idx + 1],
                      !.idx = task.idx + 1]

LoopNextConns(task, conns) ==
    IF LoopEnds(task, conns)
    THEN DisconnectAll(conns, task.disconnected, task.classroom)
    ELSE conns

\* what a broadcast that returns leaves in "returned"
Return(t, task, conns) ==
    IF LoopEnds(task, conns)
    THEN [task |-> t, classroom |-> task.classroom, data |-> task.data,
          before |-> task.before,
          after |-> DefaultGet(LoopNextConns(task, conns), task.classroom),
          raised |-> task.raised, delivered |-> task.delivered,
          interfered |-> task.interfered]
    ELSE NoReturn

\* a broadcast without the try/except around send_text: the error leaves it
OnSendRaisedAbort(task) ==
    [task EXCEPT !.pc = "crashed", !.raised = @ \cup {task.cur}]

\* send_text raised inside broadcast: the except branch collects the connection
OnSendRaised(task) ==
    [task EXCEPT !.disconnected = Append(@, task.cur),
                 !.raised = @ \cup {task.cur}]

\* send_text returned inside broadcast
OnSendReturned(task) ==
    [task EXCEPT !.delivered = @ \cup {task.cur}]

\* --------------------------------------------------------------- StoreSpec
\* The limits a history query is made with: 0, small ones, max_history + 5,
\* and a negative one.
Limits == (0 - 1) .. (MaxHistory + 5)

\* the number of add_history calls made so far
NumAdded == Len(added["c1"]) + Len(added["c2"])

StoreInit ==
    /\ classroom_data = <<>>
    /\ history_data = <<>>
    /\ response = NoResponse
    /\ added = [c \in Classrooms |-> <<>>]
    /\ FatigueIdle
    /\ HubIdle
    /\ VideoIdle

\* store.add_history(c, data): the entry's data is the number of the call
AddHistory(c) ==
    /\ NumAdded < MaxAdds
    /\ add_history(c, NumAdded + 1)
    /\ added' = [added EXCEPT ![c] = Append(@, NumAdded + 1)]
    /\ response' = NoResponse
    /\ UNCHANGED <<videoVars, classroom_data, fatigueVars, hubVars>>

\* GET /classroom/{c}/history?limit=limit
GetHistoryReq(c, limit) ==
    /\ response' = [kind |-> "history",
                    classroom_id |-> c,
                    limit |-> limit,
                    count |-> Len(get_history(c, DefaultLimit)),
                    data |-> get_history(c, limit)]
    /\ UNCHANGED <<videoVars, classroom_data, history_data, added, fatigueVars, hubVars>>

StoreNext ==
    \/ \E c \in Classrooms : AddHistory(c)
    \/ \E c \in Classrooms, limit \in Limits : GetHistoryReq(c, limit)

StoreSpec == StoreInit /\ [][StoreNext]_vars

\* After any sequence of add_history calls the history of each classroom
\* holds at most max_history entries and equals the min(n, max_history) most
\* recently added ones in insertion order; a query with limit max_history + 5
\* then returns exactly these (after max_history + 5 adds: max_history
\* entries, the 5 oldest absent); a classroom nothing was added to has none.
C5_HistoryInv ==
    /\ \A c \in Classrooms :
        /\ Len(DefaultGet(history_data, c)) <= max_history
        /\ DefaultGet(history_data, c) = LastK(added[c], max_history)
        /\ get_history(c, max_history + 5) = LastK(added[c], max_history)
        /\ Len(added[c]) = max_history + 5 =>
             /\ Len(get_history(c, max_history + 5)) = max_history
             /\ \A i \in 1 .. 5 : \A j \in DOMAIN get_history(c, max_history + 5) :
                    get_history(c, max_history + 5)[j] # added[c][i]
    /\ response.kind = "history" /\ response.limit = max_history + 5 =>
          response.data = LastK(added[response.classroom_id], max_history)

\* C5: the history invariant in every state, and add_history on one classroom
\* leaves every other classroom's history as it was.
C5_HistoryBounded ==
    /\ []C5_HistoryInv
    /\ [][\A c \in Classrooms :
          added'[c] = added[c] =>
              DefaultGet(history_data', c) = DefaultGet(history_data, c)]_vars

C5_Witness ==
    /\ Len(added["c1"]) = max_history + 5
    /\ Len(added["c2"]) = 1
    /\ response.kind = "history"
    /\ response.classroom_id = "c1"
    /\ response.limit = max_history + 5
    /\ Len(response.data) = max_history

\* C6 as claimed: for every limit >= 0, 0 included, get_history returns
\* exactly the min(limit, stored) most recent entries, oldest first.
C6_LimitRespected ==
    response.kind = "history" /\ response.limit >= 0 =>
        response.data =
            LastK(added[response.classroom_id],
                  Min(response.limit,
                      Len(DefaultGet(history_data, response.classroom_id))))
\* -------------------------------------------------------------- FatigueSpec
\* ear: closed (0.1) or open (0.3); mar: mouth shut (0.1) or yawning (0.9)
EarValues == {10, 30}
MarValues == {10, 90}

\* predict calls of one run
MaxCalls == 60
\* how often the ear signal or the mar signal may change value along the stream
MaxSteps == 1

NumCalls == Len(ear_samples["s1"]) + Len(ear_samples["s2"])

FatigueInit ==
    /\ classroom_data = <<>>
    /\ history_data = <<>>
    /\ response = NoResponse
    /\ added = [c \in Classrooms |-> <<>>]
    /\ FatigueIdle
    /\ HubIdle
    /\ VideoIdle

\* what a call costs of the stream's changes: 1 for each of ear and mar that
\* differs from the previous call's
Changes(ear, mar) ==
    IF fatigue = NoCall THEN 0
    ELSE (IF fatigue.ear # ear THEN 1 ELSE 0) + (IF fatigue.mar # mar THEN 1 ELSE 0)

Classify(s, ear, mar) ==
    /\ NumCalls < MaxCalls
    /\ steps + Changes(ear, mar) <= MaxSteps
    /\ steps' = steps + Changes(ear, mar)
    /\ Predict(s, ear, mar)
    /\ UNCHANGED <<videoVars, storeVars, hubVars>>

\* the student whose samples the stream carries
StreamStudents == {"s1"}

FatigueNext ==
    \E s \in StreamStudents, ear \in EarValues, mar \in MarValues : Classify(s, ear, mar)

FatigueSpec == FatigueInit /\ [][FatigueNext]_vars

\* the samples of a window that lie below a threshold
NumBelow(window, threshold) ==
    Len(SelectSeq(window, LAMBDA x : x < threshold))

\* C7: a predict call that leaves fewer than 10 samples in the student's ear
\* window (the student's first 9 calls) returns "alert" in both
\* implementations, whatever ear and mar are.
C7_WarmupAlert ==
    fatigue # NoCall =>
        LET s == fatigue.student
        IN  (Len(ear_samples[s]) <= 9 \/ Len(ear_history[s]) < 10
                \/ Len(net_ear_history[s]) < 10)
            => fatigue.main = "alert" /\ fatigue.net = "alert"

C7_Witness ==
    /\ fatigue # NoCall
    /\ Len(ear_samples[fatigue.student]) = 9
    /\ \A i \in 1 .. 9 : ear_samples[fatigue.student][i] = 10
    /\ \A i \in 1 .. 9 : mar_samples[fatigue.student][i] = 90
    /\ fatigue.main = "alert"
    /\ fatigue.net = "alert"

\* C8 as claimed: with at least 10 ear samples buffered, the fatigue level an
\* /analyze cycle (main.py) assigns is "drowsy" iff PERCLOS > 0.3, otherwise
\* "tired" iff PERCLOS > 0.15 or the yawn flag (current mar > 0.5) is set,
\* otherwise "alert".
C8_MainDecisionOrder ==
    fatigue # NoCall =>
        LET w == ear_history[fatigue.student]
            closed == NumBelow(w, 20)
            yawn == fatigue.mar > 50
        IN  Len(w) >= 10 =>
                fatigue.main =
                    IF closed * 100 > 30 * Len(w) THEN "drowsy"
                    ELSE IF closed * 100 > 15 * Len(w) \/ yawn THEN "tired"
                    ELSE "alert"

\* C9: fatigue_net.py takes the yawn flag from the mean of the buffered mar
\* samples (> 0.5) and, with at least 10 ear samples buffered, returns
\* "drowsy" iff PERCLOS > 0.3, else "tired" iff PERCLOS > 0.15 or the yawn
\* flag, else "alert".
C9_NetDecisionOrder ==
    fatigue # NoCall =>
        LET w == net_ear_history[fatigue.student]
            m == net_mar_history[fatigue.student]
            closed == NumBelow(w, 20)
            yawn == SumSeq(m) * 100 > 50 * Len(m) * 100
        IN  Len(w) >= 10 =>
                /\ fatigue.net = "drowsy" <=> closed * 100 > 30 * Len(w)
                /\ fatigue.net = "tired" <=>
                      /\ ~(closed * 100 > 30 * Len(w))
                      /\ closed * 100 > 15 * Len(w) \/ yawn
                /\ fatigue.net = "alert" <=>
                      /\ ~(closed * 100 > 15 * Len(w))
                      /\ ~yawn

\* the mean of the mar window is above 0.5 while the current mar is not, no
\* eye is closed, and the result is "tired"
C9_Witness ==
    /\ fatigue # NoCall
    /\ Len(net_ear_history[fatigue.student]) >= 10
    /\ NumBelow(net_ear_history[fatigue.student], 20) = 0
    /\ fatigue.mar = 10
    /\ SumSeq(net_mar_history[fatigue.student]) > 500
    /\ fatigue.net = "tired"

NumCycles == Len(tasks)

\* POST /analyze for classroom c: the response is computed and
\* save_and_broadcast(c, response) is added to the background tasks.
Analyze(c) ==
    /\ tasks' = Append(tasks, Outside("scheduled", c, NumCycles + 1))
    /\ returned' = NoReturn
    /\ UNCHANGED <<videoVars, storeVars, fatigueVars, active_connections, ws_pc, ws_room,
                   ws_frame, dead, sent, send_failed, keepalives>>

\* save_and_broadcast runs to its first suspension: set_latest, add_history,
\* then broadcast up to the first send_text (or to its return).
SaveAndBroadcast(t) ==
    /\ tasks[t].pc = "scheduled"
    /\ set_latest(tasks[t].classroom, tasks[t].data)
    /\ add_history(tasks[t].classroom, tasks[t].data)
    /\ added' = [added EXCEPT ![tasks[t].classroom] = Append(@, tasks[t].data)]
    /\ IF tasks[t].classroom \notin DOMAIN active_connections
       THEN /\ tasks' = [tasks EXCEPT ![t].pc = "done"]
            /\ returned' = [Return(t, tasks[t], <<>>) EXCEPT !.after = <<>>]
            /\ UNCHANGED active_connections
       ELSE LET start == [tasks[t] EXCEPT
                             !.before = active_connections[tasks[t].classroom],
                             !.failed_before = send_failed]
            IN  /\ tasks' = [tasks EXCEPT ![t] = LoopNextTask(start, active_connections)]
                /\ returned' = Return(t, start, active_connections)
                /\ active_connections' = LoopNextConns(start, active_connections)
    /\ UNCHANGED <<videoVars, response, fatigueVars, ws_pc, ws_room, ws_frame, dead, sent,
                   send_failed, keepalives>>

\* The send_text broadcast is suspended in completes: it raises for a dead
\* websocket and delivers the message otherwise; broadcast runs on to its next
\* send_text or to its return.
BroadcastSendDone(t) ==
    /\ tasks[t].pc = "sending"
    /\ LET w == tasks[t].cur
           task == IF w \in dead THEN OnSendRaised(tasks[t])
                   ELSE OnSendReturned(tasks[t])
           conns == LoopNextConns(task, active_connections)
       IN  /\ sent' = IF w \in dead THEN sent
                      ELSE [sent EXCEPT ![w] = @ (+) SetToBag({<<"snapshot", tasks[t].data>>})]
           /\ send_failed' = IF w \in dead THEN send_failed \cup {w} ELSE send_failed
           /\ active_connections' = IF task.pc = "crashed" THEN active_connections
                                    ELSE conns
           /\ returned' = IF task.pc = "crashed" THEN NoReturn
                          ELSE Return(t, task, active_connections)
           /\ tasks' = IF task.pc = "crashed" THEN [tasks EXCEPT ![t] = task]
                       ELSE Interfere(
                               [tasks EXCEPT ![t] = LoopNextTask(task, active_connections)],
                               task.classroom, conns # active_connections)
    /\ UNCHANGED <<videoVars, storeVars, fatigueVars, ws_pc, ws_room, ws_frame, dead,
                   keepalives>>

\* A client opens /ws/{c}: manager.connect accepts and registers the
\* websocket, then the endpoint reads the latest snapshot and, if there is
\* one, suspends sending it as "current"; otherwise it waits for a message.
WsConnect(w, c) ==
    /\ ws_pc[w] = "idle"
    /\ w \notin dead
    /\ ws_room' = [ws_room EXCEPT ![w] = c]
    /\ active_connections' = DictSet(active_connections, c,
                                Append(DefaultGet(active_connections, c), w))
    /\ tasks' = Interfere(tasks, c, TRUE)
    /\ returned' = NoReturn
    /\ LET latest == get_latest(c)
       IN  IF latest # <<>>
           THEN /\ ws_pc' = [ws_pc EXCEPT ![w] = "sending"]
                /\ ws_frame' = [ws_frame EXCEPT ![w] = <<"current", latest[1]>>]
           ELSE /\ ws_pc' = [ws_pc EXCEPT ![w] = "receiving"]
                /\ UNCHANGED ws_frame
    /\ UNCHANGED <<videoVars, storeVars, fatigueVars, dead, sent, send_failed, keepalives>>

\* The endpoint's handlers of WebSocketDisconnect and Exception: disconnect
EndpointFails(w) ==
    /\ active_connections' = disconnect(active_connections, w, ws_room[w])
    /\ tasks' = Interfere(tasks, ws_room[w],
                    w \in Elems(DefaultGet(active_connections, ws_room[w])))
    /\ ws_pc' = [ws_pc EXCEPT ![w] = "closed"]
    /\ ws_frame' = [ws_frame EXCEPT ![w] = <<>>]

\* The send_text the endpoint is suspended in ("current", "pong" or
\* "heartbeat") completes: delivered, or raised and handled by the endpoint.
WsSendDone(w) ==
    /\ ws_pc[w] = "sending"
    /\ returned' = NoReturn
    /\ IF w \in dead
       THEN /\ EndpointFails(w)
            /\ send_failed' = send_failed \cup {w}
            /\ UNCHANGED sent
       ELSE /\ sent' = [sent EXCEPT ![w] = @ (+) SetToBag({ws_frame[w]})]
            /\ ws_pc' = [ws_pc EXCEPT ![w] = "receiving"]
            /\ ws_frame' = [ws_frame EXCEPT ![w] = <<>>]
            /\ UNCHANGED <<active_connections, tasks, send_failed>>
    /\ UNCHANGED <<videoVars, storeVars, fatigueVars, ws_room, dead, keepalives>>

\* what a client may send: a ping, another JSON object, text that is no JSON
Inbound == {"ping", "other", "malformed"}

\* receive_text returns within the 30 seconds
WsReceive(w, msg) ==
    /\ ws_pc[w] = "receiving"
    /\ w \notin dead
    /\ keepalives' = Append(keepalives, <<w, msg>>)
    /\ returned' = NoReturn
    /\ CASE msg = "ping" ->
              /\ ws_pc' = [ws_pc EXCEPT ![w] = "sending"]
              /\ ws_frame' = [ws_frame EXCEPT ![w] = <<"pong", 0>>]
              /\ UNCHANGED <<active_connections, tasks>>
         [] msg = "other" ->
              UNCHANGED <<ws_pc, ws_frame, active_connections, tasks>>
         [] msg = "malformed" ->
              \* json.loads raises: caught by "except Exception"
              EndpointFails(w)
    /\ UNCHANGED <<videoVars, storeVars, fatigueVars, ws_room, dead, sent, send_failed>>

\* a keepalive loop that lets the wait expire without sending anything
WsTimeoutSilent(w) ==
    /\ ws_pc[w] = "receiving"
    /\ keepalives' = Append(keepalives, <<w, "timeout">>)
    /\ returned' = NoReturn
    /\ UNCHANGED <<videoVars, storeVars, fatigueVars, active_connections, ws_pc, ws_room,
                   ws_frame, tasks, dead, sent, send_failed>>

\* wait_for times out: the endpoint sends a heartbeat
WsTimeout(w) ==
    /\ ws_pc[w] = "receiving"
    /\ keepalives' = Append(keepalives, <<w, "timeout">>)
    /\ returned' = NoReturn
    /\ ws_pc' = [ws_pc EXCEPT ![w] = "sending"]
    /\ ws_frame' = [ws_frame EXCEPT ![w] = <<"heartbeat", 0>>]
    /\ UNCHANGED <<videoVars, storeVars, fatigueVars, active_connections, ws_room, tasks,
                   dead, sent, send_failed>>

\* receive_text raises WebSocketDisconnect: the client is gone
WsReceiveDisconnect(w) ==
    /\ ws_pc[w] = "receiving"
    /\ w \in dead
    /\ EndpointFails(w)
    /\ returned' = NoReturn
    /\ UNCHANGED <<videoVars, storeVars, fatigueVars, ws_room, dead, sent, send_failed,
                   keepalives>>

\* The client of a connected websocket goes away.
ClientGone(w) ==
    /\ ws_pc[w] \in {"sending", "receiving"}
    /\ w \notin dead
    /\ dead' = dead \cup {w}
    /\ returned' = NoReturn
    /\ UNCHANGED <<videoVars, storeVars, fatigueVars, active_connections, ws_pc, ws_room, ws_frame,
                   sent, tasks, send_failed, keepalives>>

HubInit ==
    /\ classroom_data = <<>>
    /\ history_data = <<>>
    /\ response = NoResponse
    /\ added = [c \in Classrooms |-> <<>>]
    /\ FatigueIdle
    /\ HubIdle
    /\ VideoIdle

\* In HubSpec the clients send nothing and every broadcast comes within the 30
\* seconds of a keepalive wait: the endpoints wait in receive_text until their
\* client is gone.
HubNext ==
    \/ \E c \in Classrooms : NumCycles < MaxCycles /\ Analyze(c)
    \/ \E t \in DOMAIN tasks : SaveAndBroadcast(t)
    \/ \E t \in DOMAIN tasks : BroadcastSendDone(t)
    \/ \E w \in Sockets : \E c \in RoomsOf(w) : WsConnect(w, c)
    \/ \E w \in Sockets : WsSendDone(w)
    \/ \E w \in Sockets : WsReceiveDisconnect(w)
    \/ \E w \in Sockets : ClientGone(w)

HubSpec == HubInit /\ [][HubNext]_vars

\* The keepalive loops: clients send messages and waits time out, beside one
\* analysis cycle.
KeepaliveNext ==
    \/ \E c \in Classrooms : NumCycles < 1 /\ Analyze(c)
    \/ \E t \in DOMAIN tasks : SaveAndBroadcast(t)
    \/ \E t \in DOMAIN tasks : BroadcastSendDone(t)
    \/ \E w \in Sockets : \E c \in RoomsOf(w) : WsConnect(w, c)
    \/ \E w \in Sockets : WsSendDone(w)
    \/ \E w \in Sockets : \E msg \in Inbound :
          Len(keepalives) < MaxKeepalives /\ WsReceive(w, msg)
    \/ \E w \in Sockets : Len(keepalives) < MaxKeepalives /\ WsTimeout(w)
    \/ \E w \in Sockets : WsReceiveDisconnect(w)
    \/ \E w \in Sockets : ClientGone(w)

KeepaliveSpec == HubInit /\ [][KeepaliveNext]_vars

\* the connections registered for a classroom
Registered(c) == Elems(DefaultGet(active_connections, c))

\* a task takes a step of its own (a step of save_and_broadcast or broadcast)
TaskSteps(t) ==
    /\ t \in DOMAIN tasks'
    /\ tasks[t].pc \in {"scheduled", "sending"}
    /\ tasks'[t].pc # tasks[t].pc \/ tasks'[t].idx # tasks[t].idx

\* No error leaves broadcast. When a broadcast returns, no connection whose
\* send raised is in the list and every connection whose send returned holds
\* the message; if no other task changed the list meanwhile, the connections
\* sent to are all those registered at the start whose send did not raise, and
\* the list is the one at the start without exactly those whose send raised.
C1_ReturnInv ==
    /\ \A t \in DOMAIN tasks : tasks[t].pc # "crashed"
    /\ returned # NoReturn =>
         /\ returned.raised \cap Elems(returned.after) = {}
         /\ \A w \in returned.delivered :
               CopiesIn(<<"snapshot", returned.data>>, sent[w]) >= 1
         /\ DefaultGet(active_connections, returned.classroom) = returned.after
         /\ ~returned.interfered =>
               /\ returned.delivered = Elems(returned.before) \ returned.raised
               /\ returned.after =
                     SelectSeq(returned.before, LAMBDA w : w \notin returned.raised)

\* C1: broadcast(c, m) is fault-isolated: of the connections registered for c,
\* each whose send_text does not raise is sent m, exactly those whose send
\* raised are removed when broadcast returns, broadcast raises no error, and
\* no step of it touches the connections of another classroom.
C1_BroadcastFaultIsolated ==
    /\ []C1_ReturnInv
    /\ [][\A t \in DOMAIN tasks :
            TaskSteps(t) =>
                \A c \in Classrooms \ {tasks[t].classroom} :
                    DefaultGet(active_connections', c) = DefaultGet(active_connections, c)]_vars

\* two connections, the send to one of them raised, the other was sent m
C1_Witness ==
    /\ returned # NoReturn
    /\ ~returned.interfered
    /\ Len(returned.before) = 2
    /\ Cardinality(returned.raised) = 1
    /\ Cardinality(returned.delivered) = 1
    /\ Len(returned.after) = 1

\* C2 as claimed: under any interleaving, a connection registered for c when
\* broadcast(c, m) starts and still registered when it returns, whose send
\* did not fail, was sent m by that broadcast.
C2_EveryRegisteredIsSent ==
    returned # NoReturn =>
        \A w \in Elems(returned.before) \cap Elems(returned.after) :
            w \in returned.delivered

\* C3 as claimed: a connection a send to which has raised is absent from its
\* classroom's list when the failing operation (a broadcast, an endpoint)
\* returns, and no broadcast that started after the failure sends to it.
C3_NoSendAfterFailure ==
    /\ returned # NoReturn => returned.raised \cap Elems(returned.after) = {}
    /\ \A w \in Sockets : ws_pc[w] = "closed" => w \notin Registered(ws_room[w])
    /\ \A t \in DOMAIN tasks :
          tasks[t].pc = "sending" => tasks[t].cur \notin tasks[t].failed_before

\* C4 as claimed: no snapshot is delivered to a subscriber more than once, as
\* "current" on connect and by the broadcast of the same snapshot together.
C4_SnapshotOnce ==
    \A w \in Sockets : \A d \in 1 .. NumCycles :
        CopiesIn(<<"current", d>>, sent[w]) + CopiesIn(<<"snapshot", d>>, sent[w]) <= 1

\* ------------------------------------------------------------ IsolationSpec
\* Two students classified in any interleaved order. Each student has already
\* submitted Warmup samples of a constant signal, so that the next call for
\* the student is the first one that is past the warm-up.
Warmup == NetMinSamples - 1

Const(n, x) == [i \in 1 .. n |-> x]

IsolationInit ==
    /\ classroom_data = <<>>
    /\ history_data = <<>>
    /\ response = NoResponse
    /\ added = [c \in Classrooms |-> <<>>]
    /\ HubIdle
    /\ VideoIdle
    /\ fatigue = NoCall
    /\ steps = 0
    /\ \E e \in [Students -> EarValues], m \in [Students -> MarValues] :
          /\ ear_samples = [s \in Students |-> Const(Warmup, e[s])]
          /\ mar_samples = [s \in Students |-> Const(Warmup, m[s])]
          /\ ear_history = [s \in Students |-> Const(Warmup, e[s])]
          /\ net_ear_history = [s \in Students |-> Const(Warmup, e[s])]
          /\ net_mar_history = [s \in Students |-> Const(Warmup, m[s])]

\* the calls made after the warm-up
NumInterleaved == NumCalls - 2 * Warmup

ClassifyAny(s, ear, mar) ==
    /\ NumInterleaved < MaxInterleaved
    /\ Predict(s, ear, mar)
    /\ UNCHANGED <<videoVars, storeVars, hubVars, steps>>

IsolationNext ==
    \E s \in Students, ear \in EarValues, mar \in MarValues : ClassifyAny(s, ear, mar)

IsolationSpec == IsolationInit /\ [][IsolationNext]_vars

\* what each analyzer returns for the last call, computed from nothing but the
\* samples submitted for the call's own student
C11_OwnSamplesOnly ==
    fatigue # NoCall =>
        LET s == fatigue.student
        IN  /\ fatigue.main =
                 MainLevel(LastK(ear_samples[s], MainEarMaxLen), fatigue.mar)
            /\ fatigue.net =
                 NetLevel(LastK(ear_samples[s], history_size),
                          LastK(mar_samples[s], NetMarMaxLen))

\* C11: classify(s, ear, mar) leaves the windows of every other student
\* unchanged, and its result depends only on the samples submitted for s, in
\* both implementations, for any interleaved order of the students.
C11_PerStudentIsolation ==
    /\ []C11_OwnSamplesOnly
    /\ [][\A s \in Students :
            ear_samples'[s] = ear_samples[s] /\ mar_samples'[s] = mar_samples[s] =>
                /\ DefaultGet(ear_history', s) = DefaultGet(ear_history, s)
                /\ DefaultGet(net_ear_history', s) = DefaultGet(net_ear_history, s)
                /\ DefaultGet(net_mar_history', s) = DefaultGet(net_mar_history, s)]_vars

\* s1 is classified "drowsy" on closed eyes right after s2, whose eyes are
\* open throughout, was classified
C11_Witness ==
    /\ fatigue # NoCall
    /\ fatigue.student = "s1"
    /\ fatigue.main = "drowsy"
    /\ fatigue.net = "drowsy"
    /\ Len(ear_samples["s2"]) > Warmup
    /\ \A i \in DOMAIN ear_samples["s2"] : ear_samples["s2"][i] = 30
    /\ \A i \in DOMAIN ear_samples["s1"] : ear_samples["s1"][i] = 10

\* ------------------------------------------- the stateless analyzers
\* Angles are whole degrees, scores are tenths of a point (100.0 is 1000),
\* landmark coordinates are thousandths. A head pose is a dict: a function
\* whose domain holds the keys that are present. A landmark is the list of its
\* coordinates, cut to the x coordinate, the only one predict reads: <<x>>, or
\* <<>> for a landmark sent without coordinates.
Abs(x) == IF x < 0 THEN 0 - x ELSE x

\* np.clip(x, lo, hi)
Clip(x, lo, hi) == IF x < lo THEN lo ELSE IF x > hi THEN hi ELSE x

\* head_pose.get(key, 0)
PoseGet(head_pose, key) == IF key \in DOMAIN head_pose THEN head_pose[key] ELSE 0

FullScore == 1000
YawLimit == 15
YawPerDegree == 15
YawCap == 400
PitchDownLimit == 20
PitchDownPenalty == 250
PitchUpLimit == 0 - 15
PitchUpPenalty == 150
MeshMinLandmarks == 468
MeshWindow == 100
MeshDeviation == 80
MeshPenalty == 150

\* the sum of the x coordinates of the landmarks lo .. hi, by halves
RECURSIVE SumXRange(_, _, _)
SumXRange(landmarks, lo, hi) ==
    IF lo > hi THEN 0
    ELSE IF lo = hi THEN landmarks[lo][1]
    ELSE LET mid == (lo + hi) \div 2
         IN  SumXRange(landmarks, lo, mid) + SumXRange(landmarks, mid + 1, hi)

\* the sum of the x coordinates of the first n landmarks
SumX(landmarks, n) == SumXRange(landmarks, 1, n)

\* abs(nose_tip[0] - np.mean(landmarks[0:100], axis=0)[0]) > 0.08, both sides
\* multiplied by the 100 landmarks of the mean; landmarks[1] is the second item
MeshDeviates(landmarks) ==
    Abs(MeshWindow * landmarks[2][1] - SumX(landmarks, MeshWindow))
        > MeshWindow * MeshDeviation

\* The mesh branch raises when a landmark it reads has no coordinates: np.mean
\* over rows of unequal length is a ValueError, nose_tip[0] of an empty row an
\* IndexError.
MeshRaises(landmarks) ==
    /\ Len(landmarks) > MeshMinLandmarks
    /\ \E i \in 1 .. MeshWindow : landmarks[i] = <<>>

\* a predict whose yaw penalty has no cap
AttentionPredictUncapped(landmarks, head_pose) ==
    LET yaw == Abs(PoseGet(head_pose, "yaw"))
        pitch == PoseGet(head_pose, "pitch")
        s1 == IF yaw > YawLimit
              THEN FullScore - (yaw - YawLimit) * YawPerDegree
              ELSE FullScore
        s2 == IF pitch > PitchDownLimit THEN s1 - PitchDownPenalty
              ELSE IF pitch < PitchUpLimit THEN s1 - PitchUpPenalty
              ELSE s1
        s3 == IF Len(landmarks) > MeshMinLandmarks /\ MeshDeviates(landmarks)
              THEN s2 - MeshPenalty ELSE s2
    IN  Clip(s3, 0, FullScore)

\* AttentionAnalyzer.predict of main.py
AttentionPredict(landmarks, head_pose) ==
    LET yaw == Abs(PoseGet(head_pose, "yaw"))
        pitch == PoseGet(head_pose, "pitch")
        s1 == IF yaw > YawLimit
              THEN FullScore - Min((yaw - YawLimit) * YawPerDegree, YawCap)
              ELSE FullScore
        s2 == IF pitch > PitchDownLimit THEN s1 - PitchDownPenalty
              ELSE IF pitch < PitchUpLimit THEN s1 - PitchUpPenalty
              ELSE s1
        s3 == IF Len(landmarks) > MeshMinLandmarks /\ MeshDeviates(landmarks)
              THEN s2 - MeshPenalty ELSE s2
    IN  Clip(s3, 0, FullScore)

\* AttentionAnalyzer of models/attemtion_net.py: the thresholds of __init__
yaw_threshold == 15
pitch_down_threshold == 20
pitch_up_threshold == 0 - 15

\* AttentionAnalyzer.predict of models/attemtion_net.py
NetAttentionPredict(landmarks, head_pose) ==
    LET yaw == Abs(PoseGet(head_pose, "yaw"))
        pitch == PoseGet(head_pose, "pitch")
        s1 == IF yaw > yaw_threshold
              THEN FullScore - Min((yaw - yaw_threshold) * YawPerDegree, YawCap)
              ELSE FullScore
        s2 == IF pitch > pitch_down_threshold THEN s1 - PitchDownPenalty
              ELSE IF pitch < pitch_up_threshold THEN s1 - PitchUpPenalty
              ELSE s1
        s3 == IF Len(landmarks) > MeshMinLandmarks /\ MeshDeviates(landmarks)
              THEN s2 - MeshPenalty ELSE s2
    IN  Clip(s3, 0, FullScore)

\* an analyze whose direction rules are three independent ifs
BehaviorAnalyzeIndependent(head_pose, fatigue_level) ==
    LET yaw == PoseGet(head_pose, "yaw")
        pitch == PoseGet(head_pose, "pitch")
    IN  (IF Abs(yaw) < 15 /\ Abs(pitch) < 20 THEN <<"looking_front">> ELSE <<>>)
        \o (IF pitch > 25 THEN <<"looking_down">> ELSE <<>>)
        \o (IF Abs(yaw) > 45 THEN <<"turning_around">> ELSE <<>>)
        \o (IF fatigue_level = "drowsy" THEN <<"eyes_closed">> ELSE <<>>)
        \o (IF pitch > 35 /\ fatigue_level \in {"drowsy", "tired"}
            THEN <<"head_dropping">> ELSE <<>>)

\* BehaviorAnalyzer.analyze of main.py: the tags in the order they are appended
BehaviorAnalyze(head_pose, fatigue_level) ==
    LET yaw == PoseGet(head_pose, "yaw")
        pitch == PoseGet(head_pose, "pitch")
        direction == IF Abs(yaw) < 15 /\ Abs(pitch) < 20 THEN <<"looking_front">>
                     ELSE IF pitch > 25 THEN <<"looking_down">>
                     ELSE IF Abs(yaw) > 45 THEN <<"turning_around">>
                     ELSE <<>>
        closed == IF fatigue_level = "drowsy" THEN <<"eyes_closed">> ELSE <<>>
        dropping == IF pitch > 35 /\ fatigue_level \in {"drowsy", "tired"}
                    THEN <<"head_dropping">> ELSE <<>>
    IN  direction \o closed \o dropping

\* an engine analyze that appends the posture tag before the fatigue tags
EngineBehaviorAnalyzePostureFirst(head_pose, fatigue_level) ==
    LET yaw == PoseGet(head_pose, "yaw")
        pitch == PoseGet(head_pose, "pitch")
        direction == IF Abs(yaw) <= 15
                     THEN IF Abs(pitch) <= 20 THEN <<"looking_front">>
                          ELSE IF pitch > 25 THEN <<"looking_down">>
                          ELSE <<>>
                     ELSE IF Abs(yaw) > 45 THEN <<"turning_around">>
                     ELSE IF yaw > 20 THEN <<"looking_left">>
                     ELSE IF yaw < 0 - 20 THEN <<"looking_right">>
                     ELSE <<>>
        tired == IF fatigue_level = "drowsy"
                 THEN <<"eyes_closed">> \o
                      (IF pitch > 35 THEN <<"head_dropping">> ELSE <<>>)
                 ELSE IF fatigue_level = "tired" THEN <<"rubbing_eyes">>
                 ELSE <<>>
        posture == IF Abs(pitch) > 40 THEN <<"head_down">> ELSE <<>>
    IN  direction \o posture \o tired

\* BehaviorAnalyzer.analyze of analysis/benavior_engine.py
EngineBehaviorAnalyze(head_pose, fatigue_level) ==
    LET yaw == PoseGet(head_pose, "yaw")
        pitch == PoseGet(head_pose, "pitch")
        direction == IF Abs(yaw) <= 15
                     THEN IF Abs(pitch) <= 20 THEN <<"looking_front">>
                          ELSE IF pitch > 25 THEN <<"looking_down">>
                          ELSE <<>>
                     ELSE IF Abs(yaw) > 45 THEN <<"turning_around">>
                     ELSE IF yaw > 20 THEN <<"looking_left">>
                     ELSE IF yaw < 0 - 20 THEN <<"looking_right">>
                     ELSE <<>>
        tired == IF fatigue_level = "drowsy"
                 THEN <<"eyes_closed">> \o
                      (IF pitch > 35 THEN <<"head_dropping">> ELSE <<>>)
                 ELSE IF fatigue_level = "tired" THEN <<"rubbing_eyes">>
                 ELSE <<>>
        posture == IF Abs(pitch) > 40 THEN <<"head_down">> ELSE <<>>
    IN  direction \o tired \o posture

\* calculate_engagement: the dicts "penalties" and "bonuses" with .get(key, 0)
FatiguePenalty(fatigue_level) ==
    CASE fatigue_level = "alert" -> 0
      [] fatigue_level = "tired" -> 0 - 100
      [] fatigue_level = "drowsy" -> 0 - 300
      [] OTHER -> 0

\* a bonuses dict without the entry of turning_around
BehaviorBonusNoTurning(behavior) ==
    CASE behavior = "looking_front" -> 50
      [] behavior = "head_dropping" -> 0 - 200
      [] OTHER -> 0

BehaviorBonus(behavior) ==
    CASE behavior = "looking_front" -> 50
      [] behavior = "turning_around" -> 0 - 50
      [] behavior = "head_dropping" -> 0 - 200
      [] OTHER -> 0

RECURSIVE SumBonuses(_)
SumBonuses(behaviors) ==
    IF behaviors = <<>> THEN 0
    ELSE BehaviorBonus(Head(behaviors)) + SumBonuses(Tail(behaviors))

\* a calculate_engagement that clips the score after every addition
RECURSIVE ClipEach(_, _)
ClipEach(score, behaviors) ==
    IF behaviors = <<>> THEN score
    ELSE ClipEach(Clip(score + BehaviorBonus(Head(behaviors)), 0, FullScore),
                  Tail(behaviors))

EngagementClippedEachStep(attention, fatigue_level, behaviors) ==
    ClipEach(Clip(attention + FatiguePenalty(fatigue_level), 0, FullScore), behaviors)

\* a calculate_engagement that returns the raw sum
EngagementUnclipped(attention, fatigue_level, behaviors) ==
    attention + FatiguePenalty(fatigue_level) + SumBonuses(behaviors)

calculate_engagement(attention, fatigue_level, behaviors) ==
    Clip(attention + FatiguePenalty(fatigue_level) + SumBonuses(behaviors),
         0, FullScore)

\* generate_suggestions: the messages are named by what they ask for
\*   "wake"          the drowsy student's message (remind gently, let stand up)
\*   "prompt"        the tired student's message (ask a question)
\*   "urgent"        attention below 40 (walk over to the student)
\*   "interactivity" attention below 60 (add interaction)
\*   "discipline"    the student talks to the row behind
UrgentBelow == 400
InteractivityBelow == 600

\* a generate_suggestions whose two attention rules are independent ifs
GenerateSuggestionsIndependent(attention, fatigue_level, behaviors) ==
    (IF fatigue_level = "drowsy" THEN <<"wake">>
     ELSE IF fatigue_level = "tired" THEN <<"prompt">>
     ELSE <<>>)
    \o (IF attention < UrgentBelow THEN <<"urgent">> ELSE <<>>)
    \o (IF attention < InteractivityBelow THEN <<"interactivity">> ELSE <<>>)
    \o (IF \E i \in DOMAIN behaviors : behaviors[i] = "turning_around"
        THEN <<"discipline">> ELSE <<>>)

generate_suggestions(attention, fatigue_level, behaviors) ==
    LET tired == IF fatigue_level = "drowsy" THEN <<"wake">>
                 ELSE IF fatigue_level = "tired" THEN <<"prompt">>
                 ELSE <<>>
        distracted == IF attention < UrgentBelow THEN <<"urgent">>
                      ELSE IF attention < InteractivityBelow THEN <<"interactivity">>
                      ELSE <<>>
        turning == IF \E i \in DOMAIN behaviors : behaviors[i] = "turning_around"
                   THEN <<"discipline">> ELSE <<>>
    IN  tired \o distracted \o turning

\* ------------------------------------------------------ classroom aggregation
\* A float that is the quotient of two integers is held as a fraction in
\* lowest terms with a positive denominator.
RECURSIVE GCD(_, _)
GCD(a, b) == IF b = 0 THEN a ELSE GCD(b, a % b)

Fraction(num, den) ==
    LET g == GCD(Abs(num), den) IN [num |-> num \div g, den |-> den \div g]

RECURSIVE AttentionSum(_)
\* sum(s.attention_score for s in statuses)
AttentionSum(statuses) ==
    IF statuses = <<>> THEN 0
    ELSE Head(statuses).attention_score + AttentionSum(Tail(statuses))

\* a mean rounded down to a tenth of a point
OverallAttentionFloor(statuses) ==
    IF statuses = <<>> THEN Fraction(0, 1)
    ELSE Fraction(AttentionSum(statuses) \div Len(statuses), 1)

\* float(np.mean([s.attention_score ...])) if student_statuses else 0.0
OverallAttention(statuses) ==
    IF statuses = <<>> THEN Fraction(0, 1)
    ELSE Fraction(AttentionSum(statuses), Len(statuses))

\* course_id is a string: the sequence of its characters
Lower(course_id) ==
    [i \in DOMAIN course_id |->
        CASE course_id[i] = "M" -> "m"
          [] course_id[i] = "A" -> "a"
          [] course_id[i] = "T" -> "t"
          [] course_id[i] = "H" -> "h"
          [] course_id[i] = "R" -> "r"
          [] OTHER -> course_id[i]]

\* sub in string
Contains(string, sub) ==
    \E i \in 0 .. Len(string) - Len(sub) :
        SubSeq(string, i + 1, i + Len(sub)) = sub

\* generate_teaching_recommendations: the thresholds on the mean attention in
\* tenths of a point, the engagement below which a student counts as low, and
\* the ratios in hundredths
LowAttentionBelow == 500
DistractedBelow == 700
MathBelow == 650
DrowsyManyRatio == 30
DrowsySomeRatio == 10
LowEngagementBelow == 400
LowEngagementRatio == 50

\* a generate_teaching_recommendations that stops at the first rule that fires
RecommendationsFirstOnly(statuses, course_id) ==
    IF statuses = <<>> THEN <<"waiting">>
    ELSE
    LET n == Len(statuses)
        total == AttentionSum(statuses)
        drowsy == Len(SelectSeq(statuses, LAMBDA st : st.fatigue_level = "drowsy"))
        low == Len(SelectSeq(statuses,
                       LAMBDA st : st.engagement_index < LowEngagementBelow))
    IN  IF total < LowAttentionBelow * n THEN <<"low_attention">>
        ELSE IF total < DistractedBelow * n THEN <<"some_distracted">>
        ELSE IF drowsy * 100 > DrowsyManyRatio * n THEN <<"many_drowsy">>
        ELSE IF drowsy * 100 > DrowsySomeRatio * n THEN <<"some_tired">>
        ELSE IF low * 100 > LowEngagementRatio * n
        THEN <<"low_engagement">>
        ELSE IF Contains(Lower(course_id), <<"m", "a", "t", "h">>)
                /\ total < MathBelow * n
        THEN <<"math_visual">>
        ELSE <<"good">>

\* The messages are named by their rule:
\*   "waiting"          no statuses
\*   "low_attention"    mean attention below 50
\*   "some_distracted"  mean attention below 70
\*   "many_drowsy"      more than 30% drowsy
\*   "some_tired"       more than 10% drowsy
\*   "low_engagement"   more than half with engagement below 40
\*   "math_visual"      a math course with mean attention below 65
\*   "good"             no rule fired
\* avg < t is sum < t * n; count / n > r / 100 is count * 100 > r * n.
generate_teaching_recommendations(statuses, course_id) ==
    IF statuses = <<>> THEN <<"waiting">>
    ELSE
    LET n == Len(statuses)
        total == AttentionSum(statuses)
        drowsy == Len(SelectSeq(statuses, LAMBDA st : st.fatigue_level = "drowsy"))
        low == Len(SelectSeq(statuses,
                       LAMBDA st : st.engagement_index < LowEngagementBelow))
        attention == IF total < LowAttentionBelow * n THEN <<"low_attention">>
                     ELSE IF total < DistractedBelow * n THEN <<"some_distracted">>
                     ELSE <<>>
        fatigued == IF drowsy * 100 > DrowsyManyRatio * n THEN <<"many_drowsy">>
                    ELSE IF drowsy * 100 > DrowsySomeRatio * n THEN <<"some_tired">>
                    ELSE <<>>
        engagement == IF low * 100 > LowEngagementRatio * n
                      THEN <<"low_engagement">> ELSE <<>>
        math == IF Contains(Lower(course_id), <<"m", "a", "t", "h">>)
                   /\ total < MathBelow * n
                THEN <<"math_visual">> ELSE <<>>
        recommendations == attention \o fatigued \o engagement \o math
    IN  IF recommendations # <<>> THEN recommendations ELSE <<"good">>

\* detect_anomalies: a message is its kind and the count its text reports
CriticalBelow == 200
SleepingAbove == 2

\* the statuses whose behavior_tags hold head_dropping
Sleeping(statuses) ==
    SelectSeq(statuses, LAMBDA st : \E i \in DOMAIN st.behavior_tags :
                                       st.behavior_tags[i] = "head_dropping")

\* a detect_anomalies whose sleeping rule fires from two students on
DetectAnomaliesFromTwo(statuses) ==
    LET critical == SelectSeq(statuses,
                              LAMBDA st : st.engagement_index < CriticalBelow)
        sleeping == Sleeping(statuses)
    IN  (IF Len(critical) > 0
         THEN <<[message |-> "critical", count |-> Len(critical)]>> ELSE <<>>)
        \o (IF Len(sleeping) >= SleepingAbove
            THEN <<[message |-> "sleeping", count |-> Len(sleeping)]>> ELSE <<>>)

detect_anomalies(statuses) ==
    LET critical == SelectSeq(statuses,
                              LAMBDA st : st.engagement_index < CriticalBelow)
        sleeping == Sleeping(statuses)
    IN  (IF Len(critical) > 0
         THEN <<[message |-> "critical", count |-> Len(critical)]>> ELSE <<>>)
        \o (IF Len(sleeping) > SleepingAbove
            THEN <<[message |-> "sleeping", count |-> Len(sleeping)]>> ELSE <<>>)

\* the AnalysisResponse analyze_classroom builds from the statuses
AnalysisResponse(classroom_id, course_id, student_statuses) ==
    [classroom_id |-> classroom_id,
     overall_attention |-> OverallAttention(student_statuses),
     student_statuses |-> student_statuses,
     teaching_recommendations |->
         generate_teaching_recommendations(student_statuses, course_id),
     alert_flags |-> detect_anomalies(student_statuses)]

\* ---------------------------------------------------------------- CycleSpec
\* POST /analyze with batches of student records, the deferred
\* save_and_broadcast tasks and one subscriber.
NoMesh == <<>>
\* a full face mesh: every landmark at x = a, landmark 1 (the nose tip) at x = b
FullMesh(a, b) == [i \in 1 .. MeshMinLandmarks + 1 |-> IF i = 2 THEN <<b>> ELSE <<a>>]
\* a full face mesh whose landmarks came without coordinates
BrokenMesh == [i \in 1 .. MeshMinLandmarks + 1 |-> <<>>]

StudentData(student_id, landmarks, head_pose, ear, mar) ==
    [student_id |-> student_id, landmarks |-> landmarks, head_pose |-> head_pose,
     eye_aspect_ratio |-> ear, mouth_aspect_ratio |-> mar]

\* The student records of the batches: s1 facing the front without a mesh, s2
\* turned away and looking down with a deviating mesh, s2 with a broken mesh.
StudentInputs ==
    { StudentData("s1", NoMesh, [yaw |-> 0, pitch |-> 0], 10, 10),
      StudentData("s2", FullMesh(500, 700), [yaw |-> 50, pitch |-> 30], 10, 10),
      StudentData("s2", BrokenMesh, [yaw |-> 0, pitch |-> 0], 10, 10) }

\* request.course_id of the cycles: every request is for the same course
Courses == { <<"M", "a", "T", "H">> }

\* request.students: up to one record per student of the model, ids may repeat
Batches == UNION {[1 .. n -> StudentInputs] : n \in 0 .. Cardinality(Students)}

\* whether a cycle's result is handed to save_and_broadcast
CommitsAlways(failed) == TRUE

Commits(failed) == ~failed

\* The StudentStatus analyze_classroom builds for a student record once
\* fatigue_analyzer.predict has returned level
StudentStatus(student, level) ==
    LET attention == AttentionPredict(student.landmarks, student.head_pose)
        behaviors == BehaviorAnalyze(student.head_pose, level)
    IN  [student_id |-> student.student_id,
         attention_score |-> attention,
         fatigue_level |-> level,
         behavior_tags |-> behaviors,
         engagement_index |-> calculate_engagement(attention, level, behaviors),
         suggestions |-> generate_suggestions(attention, level, behaviors)]

\* a loop that keeps one status per student_id, the latest
AppendStatusMerged(student_statuses, status) ==
    Append(SelectSeq(student_statuses,
                     LAMBDA st : st.student_id # status.student_id),
           status)

\* student_statuses.append(StudentStatus(...))
AppendStatus(student_statuses, status) == Append(student_statuses, status)

\* a loop whose fatigue analyzer starts a new window for every record instead
\* of continuing the one the student_id already has
RECURSIVE ProcessStudentsFreshWindow(_, _)
ProcessStudentsFreshWindow(students, acc) ==
    IF students = <<>> THEN acc
    ELSE LET student == Head(students)
         IN  IF MeshRaises(student.landmarks)
             THEN [acc EXCEPT !.failed = TRUE]
             ELSE LET hist == DequeAppend(<<>>, student.eye_aspect_ratio, MainEarMaxLen)
                      level == MainLevel(hist, student.mouth_aspect_ratio)
                  IN  ProcessStudentsFreshWindow(Tail(students),
                        [acc EXCEPT
                           !.ear_history = DictSet(@, student.student_id, hist),
                           !.ear_samples[student.student_id] =
                               Append(@, student.eye_aspect_ratio),
                           !.mar_samples[student.student_id] =
                               Append(@, student.mouth_aspect_ratio),
                           !.student_statuses =
                               AppendStatus(@, StudentStatus(student, level))])

\* The for loop of analyze_classroom from the record at the head of
\* "students" on. acc holds the fatigue windows, the samples submitted, the
\* statuses appended so far and whether an exception has left the loop.
RECURSIVE ProcessStudents(_, _)
ProcessStudents(students, acc) ==
    IF students = <<>> THEN acc
    ELSE LET student == Head(students)
         IN  IF MeshRaises(student.landmarks)
             THEN [acc EXCEPT !.failed = TRUE]
             ELSE LET hist == DequeAppend(DefaultGet(acc.ear_history, student.student_id),
                                          student.eye_aspect_ratio, MainEarMaxLen)
                      level == MainLevel(hist, student.mouth_aspect_ratio)
                  IN  ProcessStudents(Tail(students),
                        [acc EXCEPT
                           !.ear_history = DictSet(@, student.student_id, hist),
                           !.ear_samples[student.student_id] =
                               Append(@, student.eye_aspect_ratio),
                           !.mar_samples[student.student_id] =
                               Append(@, student.mouth_aspect_ratio),
                           !.student_statuses =
                               AppendStatus(@, StudentStatus(student, level))])

\* the number of POST /analyze requests answered so far
NumRequests == IF response = NoResponse THEN 0 ELSE response.request

\* POST /analyze: analyze_classroom has no suspension point. Either the
\* response is built and save_and_broadcast is added to the background tasks,
\* or an exception is turned into a 500 response.
AnalyzeBatch(c, course_id, students) ==
    \E done \in {ProcessStudents(students,
                    [ear_history |-> ear_history, ear_samples |-> ear_samples,
                     mar_samples |-> mar_samples, student_statuses |-> <<>>,
                     failed |-> FALSE])} :
    \E built \in {IF done.failed THEN <<>>
                   ELSE AnalysisResponse(c, course_id, done.student_statuses)} :
    LET result == [k \in DOMAIN built \cup {"request"} |->
                      IF k = "request" THEN NumRequests + 1 ELSE built[k]]
    IN  /\ ear_history' = done.ear_history
        /\ ear_samples' = done.ear_samples
        /\ mar_samples' = done.mar_samples
        /\ response' = IF done.failed
                       THEN [kind |-> "error", status_code |-> 500,
                             request |-> NumRequests + 1]
                       ELSE [kind |-> "analysis", status_code |-> 200,
                             request |-> NumRequests + 1, students |-> students,
                             body |-> result]
        /\ tasks' = IF Commits(done.failed)
                    THEN Append(tasks, Outside("scheduled", c, result))
                    ELSE tasks
        /\ returned' = NoReturn
        /\ UNCHANGED <<videoVars, classroom_data, history_data, added, net_ear_history,
                       net_mar_history, fatigue, steps, active_connections, ws_pc,
                       ws_room, ws_frame, dead, sent, send_failed, keepalives>>

CycleInit == HubInit

CycleNext ==
    \/ \E c \in Classrooms, course_id \in Courses : \E students \in Batches :
          NumRequests < MaxRequests /\ AnalyzeBatch(c, course_id, students)
    \/ \E t \in DOMAIN tasks : SaveAndBroadcast(t)
    \/ \E t \in DOMAIN tasks : BroadcastSendDone(t)
    \/ \E c \in RoomsOf("w1") : WsConnect("w1", c)
    \/ WsSendDone("w1")

CycleSpec == CycleInit /\ [][CycleNext]_vars

\* the request numbers of the snapshots that are stored, scheduled or sent
CommittedRequests ==
    {classroom_data[c].request : c \in DOMAIN classroom_data}
    \cup UNION {{history_data[c][i].request : i \in DOMAIN history_data[c]} :
                    c \in DOMAIN history_data}
    \cup {tasks[t].data.request : t \in DOMAIN tasks}
    \cup UNION {{f[2].request : f \in {g \in DOMAIN sent[w] : g[1] = "snapshot"}} :
                    w \in Sockets}
    \cup UNION {{f[2].request : f \in {g \in DOMAIN sent[w] : g[1] = "current"}} :
                    w \in Sockets}

\* the step is a POST /analyze answered with the 500 of an aborted cycle
AbortStep == response' # response /\ response'.kind = "error"

\* C12: an /analyze cycle aborted by an internal computation error at any
\* student of the batch commits nothing: latest and history of every classroom
\* are unchanged, no save_and_broadcast task is scheduled, nothing is sent to
\* a subscriber, and nothing stored, scheduled or sent ever carries that cycle.
C12_AbortCommitsNothing ==
    /\ [][AbortStep =>
            /\ classroom_data' = classroom_data
            /\ history_data' = history_data
            /\ tasks' = tasks
            /\ sent' = sent
            /\ ws_frame' = ws_frame]_vars
    /\ [](response # NoResponse /\ response.kind = "error" =>
            response.request \notin CommittedRequests)

\* the second cycle for c1 aborted at its second student, after s1 had been
\* classified, with a subscriber connected and the first cycle stored
C12_Witness ==
    /\ response # NoResponse
    /\ response.kind = "error"
    /\ response.request = 2
    /\ "w1" \in Registered("c1")
    /\ "c1" \in DOMAIN classroom_data
    /\ Len(classroom_data["c1"].student_statuses) = 1
    /\ Len(ear_samples["s1"]) = 2

\* how often entry x occurs in a sequence
Occurrences(seq, x) == Cardinality({i \in DOMAIN seq : seq[i] = x})

\* task t leaves "scheduled" in this step: its save_and_broadcast runs up to the
\* first send of the broadcast, or to the broadcast's return
BroadcastBegins(t) ==
    /\ t \in DOMAIN tasks
    /\ tasks[t].pc = "scheduled"
    /\ tasks'[t].pc # "scheduled"

\* what a step may do to the tasks and the store
C13_Step ==
    /\ \A t \in DOMAIN tasks' \ DOMAIN tasks :
          /\ tasks'[t].pc = "scheduled"
          /\ response'.kind = "analysis"
          /\ response'.body = tasks'[t].data
          /\ response'.body.classroom_id = tasks'[t].classroom
    /\ \A t \in DOMAIN tasks :
          /\ tasks[t].pc # "scheduled" => tasks'[t].pc # "scheduled"
          /\ tasks'[t].data = tasks[t].data
          /\ BroadcastBegins(t) =>
                LET c == tasks[t].classroom
                IN  /\ c \in DOMAIN classroom_data'
                    /\ classroom_data'[c] = tasks[t].data
                    /\ added'[c] = Append(added[c], tasks[t].data)
                    /\ c \in DOMAIN history_data'
                    /\ history_data'[c][Len(history_data'[c])] = tasks[t].data
    /\ <<classroom_data, history_data, added>>' # <<classroom_data, history_data, added>>
          => \E t \in DOMAIN tasks : BroadcastBegins(t)

\* a snapshot is appended to the history once, by the time its broadcast has
\* begun and not before; every snapshot a subscriber holds has been appended
C13_State ==
    /\ \A t \in DOMAIN tasks :
          Occurrences(added[tasks[t].classroom], tasks[t].data)
              = IF tasks[t].pc = "scheduled" THEN 0 ELSE 1
    /\ \A w \in Sockets : \A f \in DOMAIN sent[w] :
          f[1] = "snapshot" => Occurrences(added[f[2].classroom_id], f[2]) = 1

\* C13: store update and broadcast come only after the cycle's response has
\* been computed; each successful cycle does one set_latest, one add_history
\* and one broadcast, so that whenever the broadcast of snapshot S for
\* classroom c begins, S is c's latest snapshot and the newest entry of c's
\* history.
C13_StoreThenBroadcast == [][C13_Step]_vars /\ []C13_State

\* the broadcast of the second cycle's snapshot for c1 is suspended in the send
\* to w1; the snapshot is c1's latest and the newest of two history entries
C13_Witness ==
    /\ Len(tasks) = 2
    /\ tasks[2].pc = "sending"
    /\ tasks[2].cur = "w1"
    /\ tasks[2].classroom = "c1"
    /\ classroom_data["c1"] = tasks[2].data
    /\ Len(history_data["c1"]) = 2
    /\ history_data["c1"][2] = tasks[2].data
    /\ tasks[2].data = response.body

\* ------------------------------------------------------------ keepalive loops
\* C14 as claimed: a connection leaves its classroom's list, and its keepalive
\* loop ends, only through a disconnect of the client or a failed send to it;
\* no timeout and no inbound message (ping, other, malformed) does that.
C14_OnlyDisconnectOrSendFailure ==
    \A w \in Sockets :
        ws_pc[w] = "closed" \/ (ws_pc[w] # "idle" /\ w \notin Registered(ws_room[w]))
            => w \in dead \/ w \in send_failed

\* how often event e of websocket w is in the log
Events(w, e) == Occurrences(keepalives, <<w, e>>)

\* 1 if the endpoint of w is suspended in the send of a frame of this type
Pending(w, type) ==
    IF ws_pc[w] = "sending" /\ ws_frame[w][1] = type THEN 1 ELSE 0

\* the frames of a type delivered to w
Delivered(w, type) == CopiesIn(<<type, 0>>, sent[w])

\* C15: in the keepalive loop of a connection whose sends succeed, every
\* inbound ping is answered with exactly one pong and every expired wait with
\* exactly one heartbeat, the loop emits no other frame, and after either it
\* waits again with the connection still registered.
C15_KeepaliveFrames ==
    \A w \in Sockets :
        /\ \A f \in DOMAIN sent[w] :
              f[1] \in {"current", "snapshot", "pong", "heartbeat"}
        /\ ws_pc[w] \in {"sending", "receiving"} =>
              /\ Delivered(w, "pong") + Pending(w, "pong") = Events(w, "ping")
              /\ Delivered(w, "heartbeat") + Pending(w, "heartbeat")
                    = Events(w, "timeout")
              /\ w \notin send_failed => w \in Registered(ws_room[w])
        /\ Delivered(w, "pong") <= Events(w, "ping")
        /\ Delivered(w, "heartbeat") <= Events(w, "timeout")

\* w1 has been sent its pong and its heartbeat and waits again, registered
C15_Witness ==
    /\ ws_pc["w1"] = "receiving"
    /\ Events("w1", "ping") = 1
    /\ Events("w1", "timeout") = 1
    /\ Delivered("w1", "pong") = 1
    /\ Delivered("w1", "heartbeat") = 1
    /\ "w1" \in Registered(ws_room["w1"])

\* ------------------------------------------------------------------ subscribe
\* the "current" frames delivered to w
CurrentFrames(w) == {f \in DOMAIN sent[w] : f[1] = "current"}

\* websocket w is opened in this step
Subscribes(w) == ws_pc[w] = "idle" /\ ws_pc'[w] # "idle"

C16_Step ==
    \A w \in Sockets :
        /\ Subscribes(w) =>
              LET c == ws_room'[w]
              IN  /\ w \in Elems(DefaultGet(active_connections', c))
                  /\ sent' = sent
                  /\ IF c \in DOMAIN classroom_data
                     THEN /\ ws_pc'[w] = "sending"
                          /\ ws_frame'[w] = <<"current", classroom_data[c]>>
                     ELSE /\ ws_pc'[w] = "receiving"
                          /\ ws_frame'[w] = <<>>
        /\ ws_pc[w] = "sending" /\ ws_pc'[w] = "receiving" =>
              sent'[w] = sent[w] (+) SetToBag({ws_frame[w]})
        /\ ~Subscribes(w) /\ ws_frame'[w] # ws_frame[w] => ws_frame'[w] = <<>>

\* C16: a subscription to classroom c registers the connection and, iff c has
\* a latest snapshot at that moment, pushes exactly that snapshot to the new
\* connection, as its one "current" frame, before the endpoint first waits for
\* a message; without a latest snapshot nothing is pushed on connect.
C16_CurrentOnConnect ==
    /\ [][C16_Step]_vars
    /\ [](\A w \in Sockets :
            /\ Cardinality(CurrentFrames(w)) <= 1
            /\ \A f \in CurrentFrames(w) : CopiesIn(f, sent[w]) = 1
            /\ ws_frame[w] # <<>> => ws_pc[w] = "sending" /\ CurrentFrames(w) = {})

\* w1 subscribed before any snapshot and was pushed nothing; w2 subscribed
\* when the second snapshot was the latest one and was pushed that
C16_Witness ==
    /\ ws_pc["w1"] = "receiving"
    /\ CurrentFrames("w1") = {}
    /\ "w1" \in Registered(ws_room["w1"])
    /\ ws_pc["w2"] = "receiving"
    /\ CurrentFrames("w2") = {<<"current", 2>>}
    /\ "w2" \in Registered(ws_room["w2"])

\* --------------------------------------------------------------- LatestSpec
\* set_latest calls with snapshots of different key sets, and status queries
Snapshots ==
    { [overall_attention |-> 500],
      [overall_attention |-> 700, alert_flags |-> 1],
      [alert_flags |-> 2] }

\* the number of set_latest calls made so far
NumSets == IF response = NoResponse THEN 0 ELSE response.call

\* store.set_latest(c, snapshot)
SetLatest(c, snapshot) ==
    /\ NumSets < MaxSets
    /\ set_latest(c, snapshot)
    /\ response' = [kind |-> "set_latest", call |-> NumSets + 1,
                    classroom_id |-> c, data |-> snapshot]
    /\ UNCHANGED <<videoVars, history_data, added, fatigueVars, hubVars>>

\* GET /classroom/{c}/status
GetStatus(c) ==
    /\ NumSets > 0
    /\ LET data == get_latest(c)
       IN  response' = IF data = <<>>
                       THEN [kind |-> "status", call |-> NumSets,
                             classroom_id |-> c, status_code |-> 404]
                       ELSE [kind |-> "status", call |-> NumSets,
                             classroom_id |-> c, status_code |-> 200,
                             body |-> data[1]]
    /\ UNCHANGED <<videoVars, classroom_data, history_data, added, fatigueVars, hubVars>>

LatestInit == HubInit

LatestNext ==
    \/ \E c \in Classrooms : \E snapshot \in Snapshots : SetLatest(c, snapshot)
    \/ \E c \in Classrooms : GetStatus(c)

LatestSpec == LatestInit /\ [][LatestNext]_vars

\* the step is a set_latest call
SetLatestStep == response' # response /\ response'.kind = "set_latest"

C17_Step ==
    /\ SetLatestStep =>
          LET c == response'.classroom_id
          IN  /\ c \in DOMAIN classroom_data'
              /\ classroom_data'[c] = response'.data
              /\ DOMAIN classroom_data'[c] = DOMAIN response'.data
              /\ \A d \in Classrooms \ {c} :
                    /\ d \in DOMAIN classroom_data' <=> d \in DOMAIN classroom_data
                    /\ d \in DOMAIN classroom_data =>
                          classroom_data'[d] = classroom_data[d]
              /\ history_data' = history_data
    /\ ~SetLatestStep => classroom_data' = classroom_data

\* C17: set_latest(c, s) is a full overwrite: afterwards get_latest(c) is
\* exactly s, the latest snapshot of every other classroom and the history
\* are unchanged, and nothing else changes a latest snapshot, so that
\* get_latest(c) is always the argument of the last set_latest call for c.
C17_FullOverwrite ==
    /\ [][C17_Step]_vars
    /\ [](response # NoResponse =>
            /\ response.kind = "set_latest" =>
                  get_latest(response.classroom_id) = <<response.data>>
            /\ response.kind = "status" /\ response.status_code = 200 =>
                  <<response.body>> = get_latest(response.classroom_id))

\* c1's snapshot with two keys was overwritten by one with a single other key
C17_Witness ==
    /\ response # NoResponse
    /\ response.kind = "status"
    /\ response.call = 3
    /\ response.classroom_id = "c1"
    /\ response.status_code = 200
    /\ response.body = [alert_flags |-> 2]
    /\ "c2" \in DOMAIN classroom_data
    /\ classroom_data["c2"] = [overall_attention |-> 700, alert_flags |-> 1]

\* ---------------------------------------------------------------- ScoreSpec
\* The stateless analyzers applied to every input of bounded sets: the initial
\* state holds a call, the one step of a behaviour answers it.
Angles == (0 - MaxAngle) .. MaxAngle

\* head poses with both angles, with one of them, with none
Poses ==
    {[yaw |-> y, pitch |-> q] : y \in Angles, q \in Angles}
    \cup {[yaw |-> y] : y \in {0 - 50, 0, 50}}
    \cup {[pitch |-> q] : q \in {0 - 30, 0, 30}}
    \cup {[roll |-> 90]}

\* Landmark lists by their length, the x of landmark 1 (nose) and the x of
\* all others (centre): none, one short of a full mesh, full meshes whose nose
\* is centred, just below and just above the deviation of 0.08, and far off.
Meshes ==
    { [count |-> 0, centre |-> 500, nose |-> 500],
      [count |-> MeshMinLandmarks, centre |-> 500, nose |-> 700],
      [count |-> MeshMinLandmarks + 1, centre |-> 500, nose |-> 500],
      [count |-> MeshMinLandmarks + 1, centre |-> 500, nose |-> 580],
      [count |-> MeshMinLandmarks + 1, centre |-> 500, nose |-> 581],
      [count |-> MeshMinLandmarks + 1, centre |-> 500, nose |-> 300] }

\* the landmark lists of the status calls: no mesh, and the far-off nose
StatusMeshes == {m \in Meshes : m.count = 0 \/ m.nose = 300}

LandmarksOf(mesh) ==
    [i \in 1 .. mesh.count |-> IF i = 2 THEN <<mesh.nose>> ELSE <<mesh.centre>>]

FatigueLevels == {"alert", "tired", "drowsy"}

\* the tags either BehaviorAnalyzer appends, in a fixed order
KnownTags ==
    <<"looking_front", "looking_down", "turning_around", "looking_left",
      "looking_right", "eyes_closed", "head_dropping", "rubbing_eyes", "head_down">>

\* the tags calculate_engagement gives a bonus, and one it does not know
ScoredTags ==
    {"looking_front", "looking_down", "turning_around", "eyes_closed", "head_dropping"}

TagList(tags) == SelectSeq(KnownTags, LAMBDA t : t \in tags)

\* the tag lists calculate_engagement is called with: every order, repetitions
\* included
TagLists == UNION {[1 .. n -> ScoredTags] : n \in 0 .. MaxTags}

Attentions == 0 .. FullScore

\* the calls: every function with every input
AttentionCall(m, h) == [kind |-> "call", fn |-> "attention", mesh |-> m, head_pose |-> h]
BehaviorCall(h, l) == [kind |-> "call", fn |-> "behavior", head_pose |-> h, fatigue |-> l]
EngagementCall(a, l, b) ==
    [kind |-> "call", fn |-> "engagement", attention |-> a, fatigue |-> l,
     behaviors |-> b]
StatusCall(m, h, l) ==
    [kind |-> "call", fn |-> "status", mesh |-> m, head_pose |-> h, fatigue |-> l]
SuggestionsCall(a, l, b) ==
    [kind |-> "call", fn |-> "suggestions", attention |-> a, fatigue |-> l,
     behaviors |-> b]

ScoreInit ==
    /\ classroom_data = <<>>
    /\ history_data = <<>>
    /\ added = [c \in Classrooms |-> <<>>]
    /\ FatigueIdle
    /\ HubIdle
    /\ VideoIdle
    /\ \/ \E m \in Meshes, h \in Poses : response = AttentionCall(m, h)
       \/ \E h \in Poses, l \in FatigueLevels : response = BehaviorCall(h, l)
       \/ \E a \in Attentions, l \in FatigueLevels, b \in TagLists :
             response = EngagementCall(a, l, b)
       \/ \E m \in StatusMeshes, h \in Poses, l \in FatigueLevels :
             response = StatusCall(m, h, l)
       \/ \E a \in Attentions, l \in FatigueLevels, b \in TagLists :
             response = SuggestionsCall(a, l, b)

Called(fn) == response.kind = "call" /\ response.fn = fn

\* attention_analyzer.predict(landmarks, head_pose), both implementations
ScoreAttention ==
    /\ Called("attention")
    /\ response' =
          [kind |-> "attention", mesh |-> response.mesh,
           head_pose |-> response.head_pose,
           score |-> AttentionPredict(LandmarksOf(response.mesh), response.head_pose),
           net |-> NetAttentionPredict(LandmarksOf(response.mesh), response.head_pose)]
    /\ UNCHANGED <<videoVars, classroom_data, history_data, added, fatigueVars, hubVars>>

\* behavior_analyzer.analyze(head_pose, fatigue), both implementations
TagBehavior ==
    /\ Called("behavior")
    /\ response' =
          [kind |-> "behavior", head_pose |-> response.head_pose,
           fatigue |-> response.fatigue,
           tags |-> BehaviorAnalyze(response.head_pose, response.fatigue),
           engine |-> EngineBehaviorAnalyze(response.head_pose, response.fatigue)]
    /\ UNCHANGED <<videoVars, classroom_data, history_data, added, fatigueVars, hubVars>>

\* calculate_engagement(attention, fatigue, behaviors)
ScoreEngagement ==
    /\ Called("engagement")
    /\ response' =
          [kind |-> "engagement", attention |-> response.attention,
           fatigue |-> response.fatigue, behaviors |-> response.behaviors,
           engagement |-> calculate_engagement(response.attention, response.fatigue,
                                               response.behaviors)]
    /\ UNCHANGED <<videoVars, classroom_data, history_data, added, fatigueVars, hubVars>>

\* the body of analyze_classroom's loop for one student whose fatigue level is
\* the one given
ScoreStudent ==
    /\ Called("status")
    /\ response' =
          [kind |-> "status_built", mesh |-> response.mesh,
           head_pose |-> response.head_pose,
           status |-> StudentStatus(
                         StudentData("s1", LandmarksOf(response.mesh),
                                     response.head_pose, 10, 10),
                         response.fatigue)]
    /\ UNCHANGED <<videoVars, classroom_data, history_data, added, fatigueVars, hubVars>>

\* generate_suggestions(attention, fatigue, behaviors)
Suggest ==
    /\ Called("suggestions")
    /\ response' =
          [kind |-> "suggestions", attention |-> response.attention,
           fatigue |-> response.fatigue, behaviors |-> response.behaviors,
           suggestions |-> generate_suggestions(response.attention, response.fatigue,
                                                response.behaviors)]
    /\ UNCHANGED <<videoVars, classroom_data, history_data, added, fatigueVars, hubVars>>

ScoreNext ==
    ScoreAttention \/ TagBehavior \/ ScoreEngagement \/ ScoreStudent \/ Suggest

ScoreSpec == ScoreInit /\ [][ScoreNext]_vars

InRange(score) == 0 <= score /\ score <= FullScore

\* C18: attention_score and engagement_index of every StudentStatus lie within
\* [0, 100] for every head pose, landmark list and fatigue level, and
\* calculate_engagement returns a value within [0, 100] for every attention
\* in [0, 100], every fatigue level and every list of tags.
C18_ScoresInRange ==
    /\ response.kind = "attention" => InRange(response.score) /\ InRange(response.net)
    /\ response.kind = "engagement" => InRange(response.engagement)
    /\ response.kind = "status_built" =>
          /\ InRange(response.status.attention_score)
          /\ InRange(response.status.engagement_index)

\* attention 20.0, drowsy, head dropping: 20 - 30 - 20 is clipped to 0
C18_Witness ==
    /\ response.kind = "engagement"
    /\ response.attention = 200
    /\ response.fatigue = "drowsy"
    /\ response.behaviors = <<"eyes_closed", "head_dropping">>
    /\ response.engagement = 0

\* the score the documented rule gives, in tenths of a point
YawPenalty(yaw) ==
    IF Abs(yaw) > 15 THEN Min((Abs(yaw) - 15) * 15, 400) ELSE 0

PitchPenalty(pitch) ==
    IF pitch > 20 THEN 250 ELSE IF pitch < 0 - 15 THEN 150 ELSE 0

\* 15 only for more than 468 landmarks whose landmark 1 lies more than 0.08
\* from the mean x of the first 100: the mean is (99 * centre + nose) / 100
MeshPenaltyOf(mesh) ==
    IF mesh.count > 468 /\ Abs(100 * mesh.nose - (99 * mesh.centre + mesh.nose)) > 8000
    THEN 150 ELSE 0

\* C19: the attention score is the function clip(100 - yawPenalty -
\* pitchPenalty - meshPenalty, 0, 100) of (landmarks, head_pose) alone, in both
\* implementations, with a missing angle read as 0; score(yaw = 0, pitch = 0,
\* no landmarks) = 100.
C19_AttentionFormula ==
    response.kind = "attention" =>
        LET yaw == PoseGet(response.head_pose, "yaw")
            pitch == PoseGet(response.head_pose, "pitch")
            expected == Clip(1000 - YawPenalty(yaw) - PitchPenalty(pitch)
                                  - MeshPenaltyOf(response.mesh), 0, 1000)
        IN  /\ response.score = expected
            /\ response.net = expected
            /\ yaw = 0 /\ pitch = 0 /\ response.mesh.count = 0 => response.score = 1000

\* yaw -50 (penalty capped at 40), pitch 30 (25) and a deviating mesh (15): 20
C19_Witness ==
    /\ response.kind = "attention"
    /\ response.head_pose = [yaw |-> 0 - 50, pitch |-> 30]
    /\ response.mesh = [count |-> MeshMinLandmarks + 1, centre |-> 500, nose |-> 581]
    /\ response.score = 200
    /\ response.net = 200

DirectionTags ==
    {"looking_front", "looking_down", "turning_around", "looking_left", "looking_right"}

\* the number of direction tags in a tag list, repetitions counted
NumDirections(tags) == Cardinality({i \in DOMAIN tags : tags[i] \in DirectionTags})

\* C20: for every (yaw, pitch, fatigue) the tag list either
\* BehaviorAnalyzer.analyze returns holds at most one direction tag.
C20_OneDirectionTag ==
    response.kind = "behavior" =>
        /\ NumDirections(response.tags) <= 1
        /\ NumDirections(response.engine) <= 1

\* turned far away and looking down: two direction rules match, one tag each
C20_Witness ==
    /\ response.kind = "behavior"
    /\ response.head_pose = [yaw |-> 50, pitch |-> 30]
    /\ response.fatigue = "tired"
    /\ response.tags = <<"looking_down">>
    /\ response.engine = <<"turning_around", "rubbing_eyes">>

\* the tags main.py's analyzer gave in the state: those of an analyze call, or
\* those of a StudentStatus
CycleTagged == response.kind \in {"behavior", "status_built"}

CycleTags ==
    IF response.kind = "behavior" THEN response.tags
    ELSE response.status.behavior_tags

Has(tags, tag) == \E i \in DOMAIN tags : tags[i] = tag

\* C21: the direction tag main.py's BehaviorAnalyzer.analyze assigns follows
\* the documented rules for every (yaw, pitch): looking_front iff |yaw| <= 15
\* and |pitch| <= 20; looking_down iff |yaw| <= 15 and pitch > 25;
\* turning_around whenever |yaw| > 45; looking_left when 20 < yaw <= 45 and
\* looking_right when -45 <= yaw < -20.
C21_DirectionRules ==
    CycleTagged =>
        LET yaw == PoseGet(response.head_pose, "yaw")
            pitch == PoseGet(response.head_pose, "pitch")
        IN  /\ Has(CycleTags, "looking_front") <=> Abs(yaw) <= 15 /\ Abs(pitch) <= 20
            /\ Has(CycleTags, "looking_down") <=> Abs(yaw) <= 15 /\ pitch > 25
            /\ Abs(yaw) > 45 => Has(CycleTags, "turning_around")
            /\ 20 < yaw /\ yaw <= 45 => Has(CycleTags, "looking_left")
            /\ 0 - 45 <= yaw /\ yaw < 0 - 20 => Has(CycleTags, "looking_right")

\* C22: the fatigue and posture tags main.py's BehaviorAnalyzer.analyze
\* assigns are exactly: eyes_closed iff drowsy; head_dropping iff drowsy and
\* pitch > 35; rubbing_eyes iff tired; head_down iff |pitch| > 40.
C22_FatigueAndPostureTags ==
    CycleTagged =>
        LET pitch == PoseGet(response.head_pose, "pitch")
            level == IF response.kind = "behavior" THEN response.fatigue
                     ELSE response.status.fatigue_level
        IN  /\ Has(CycleTags, "eyes_closed") <=> level = "drowsy"
            /\ Has(CycleTags, "head_dropping") <=> level = "drowsy" /\ pitch > 35
            /\ Has(CycleTags, "rubbing_eyes") <=> level = "tired"
            /\ Has(CycleTags, "head_down") <=> Abs(pitch) > 40

\* the number of the first documented direction rule (yaw, pitch) matches, 0
\* when none does
DirectionRule(yaw, pitch) ==
    CASE Abs(yaw) <= 15 /\ Abs(pitch) <= 20 -> 1
      [] Abs(yaw) <= 15 /\ pitch > 25 -> 2
      [] Abs(yaw) > 45 -> 3
      [] Abs(yaw) <= 45 /\ (yaw > 20 \/ yaw < 0 - 20) -> 4
      [] OTHER -> 0

\* the tags the documented rule table prescribes, as a set
DocumentedTags(yaw, pitch, fatigue_level) ==
    LET rule == DirectionRule(yaw, pitch)
    IN  {t \in {"looking_front"} : rule = 1}
        \cup {t \in {"looking_down"} : rule = 2}
        \cup {t \in {"turning_around"} : rule = 3}
        \cup {t \in {"looking_left"} : rule = 4 /\ yaw > 20}
        \cup {t \in {"looking_right"} : rule = 4 /\ yaw < 0 - 20}
        \cup {t \in {"eyes_closed"} : fatigue_level = "drowsy"}
        \cup {t \in {"head_dropping"} : fatigue_level = "drowsy" /\ pitch > 35}
        \cup {t \in {"rubbing_eyes"} : fatigue_level = "tired"}
        \cup {t \in {"head_down"} : Abs(pitch) > 40}

\* C23: analysis/benavior_engine.py's BehaviorAnalyzer.analyze returns, for
\* every (yaw, pitch, fatigue), exactly the tags of the documented rule table
\* in a fixed order without duplicates: the direction tag first, then
\* eyes_closed and head_dropping or rubbing_eyes, then head_down.
C23_EngineRuleTable ==
    response.kind = "behavior" =>
        response.engine =
            TagList(DocumentedTags(PoseGet(response.head_pose, "yaw"),
                                   PoseGet(response.head_pose, "pitch"),
                                   response.fatigue))

\* a drowsy student looking left with the head far down: four tags in order
C23_Witness ==
    /\ response.kind = "behavior"
    /\ response.head_pose = [yaw |-> 30, pitch |-> 41]
    /\ response.fatigue = "drowsy"
    /\ response.engine = <<"looking_left", "eyes_closed", "head_dropping", "head_down">>

\* the number of times tag occurs in a tag list
Count(tags, tag) == Cardinality({i \in DOMAIN tags : tags[i] = tag})

\* C24: calculate_engagement(attention, fatigue, behaviors) = clip(attention
\* + fatigue_penalty + sum of the behavior bonuses, 0, 100) with penalties
\* alert 0, tired -10, drowsy -30 and bonuses looking_front +5,
\* turning_around -5, head_dropping -20, every other tag 0; the result
\* depends on how often each tag occurs, not on the order of the tags.
C24_EngagementFormula ==
    response.kind = "engagement" =>
        LET penalty == CASE response.fatigue = "alert" -> 0
                         [] response.fatigue = "tired" -> 0 - 100
                         [] response.fatigue = "drowsy" -> 0 - 300
            bonus == 50 * Count(response.behaviors, "looking_front")
                     - 50 * Count(response.behaviors, "turning_around")
                     - 200 * Count(response.behaviors, "head_dropping")
        IN  response.engagement = Clip(response.attention + penalty + bonus, 0, 1000)

\* attention 100 with looking_front before head_dropping: 100 + 5 - 20 = 85;
\* clipping after the first addition would lose the 5
C24_Witness ==
    /\ response.kind = "engagement"
    /\ response.attention = 1000
    /\ response.fatigue = "alert"
    /\ response.behaviors = <<"looking_front", "head_dropping">>
    /\ response.engagement = 850

\* the suggestion messages in their documented order
SuggestionOrder == <<"wake", "prompt", "urgent", "interactivity", "discipline">>

\* C25: generate_suggestions returns, in this fixed order, at most one fatigue
\* message (wake if drowsy, else prompt if tired), then at most one attention
\* message (urgent if attention < 40, else interactivity if attention < 60),
\* then the discipline message iff turning_around is among the tags; at most
\* 3 entries, no duplicates, and none for an alert student with attention
\* >= 60 and no turning_around.
C25_SuggestionChain ==
    response.kind = "suggestions" =>
        LET list == response.suggestions
            turning == Has(response.behaviors, "turning_around")
        IN  /\ Has(list, "wake") <=> response.fatigue = "drowsy"
            /\ Has(list, "prompt") <=> response.fatigue = "tired"
            /\ Has(list, "urgent") <=> response.attention < 400
            /\ Has(list, "interactivity") <=>
                   400 <= response.attention /\ response.attention < 600
            /\ Has(list, "discipline") <=> turning
            /\ list = SelectSeq(SuggestionOrder, LAMBDA m : Has(list, m))
            /\ Len(list) <= 3
            /\ response.fatigue = "alert" /\ response.attention >= 600 /\ ~turning
                  => list = <<>>

\* a drowsy student at attention 39.9 who turns around: three messages
C25_Witness ==
    /\ response.kind = "suggestions"
    /\ response.attention = 399
    /\ response.fatigue = "drowsy"
    /\ response.behaviors = <<"turning_around", "eyes_closed">>
    /\ response.suggestions = <<"wake", "urgent", "discipline">>

\* --------------------------------------------------------------- RosterSpec
\* The aggregation at the end of analyze_classroom applied to every list of up
\* to MaxRoster statuses: the initial state holds the statuses the loop has
\* built and the request's course_id, the one step builds the response.

\* The statuses of a student facing the front, of a drowsy one turned away
\* with the head down, of a tired one with the head down, of one looking
\* aside, and of one turned away and looking down.
\* the course ids of the aggregation: two that hold "math" once lowered, two
\* that do not
RosterCourses ==
    Courses \cup { <<"m", "a", "t", "h", "1">>, <<"a", "r", "t">>, <<"m", "a", "t">> }

RosterStatuses ==
    { StudentStatus(StudentData("s1", NoMesh, [yaw |-> 0, pitch |-> 0], 30, 10), "alert"),
      StudentStatus(StudentData("s2", NoMesh, [yaw |-> 50, pitch |-> 40], 10, 10), "drowsy"),
      StudentStatus(StudentData("s1", NoMesh, [yaw |-> 0, pitch |-> 40], 20, 70), "tired"),
      StudentStatus(StudentData("s2", NoMesh, [yaw |-> 40, pitch |-> 0], 30, 10), "alert"),
      StudentStatus(StudentData("s2", NoMesh, [yaw |-> 50, pitch |-> 30], 30, 10), "alert") }

Rosters == UNION {[1 .. n -> RosterStatuses] : n \in 0 .. MaxRoster}

RosterInit ==
    /\ classroom_data = <<>>
    /\ history_data = <<>>
    /\ added = [c \in Classrooms |-> <<>>]
    /\ FatigueIdle
    /\ HubIdle
    /\ VideoIdle
    /\ \E statuses \in Rosters, course_id \in RosterCourses :
          response = [kind |-> "call", fn |-> "aggregate", course_id |-> course_id,
                      student_statuses |-> statuses]

\* analyze_classroom from overall_attention to the AnalysisResponse
Aggregate ==
    /\ Called("aggregate")
    /\ response' =
          [kind |-> "aggregate", course_id |-> response.course_id,
           student_statuses |-> response.student_statuses,
           body |-> AnalysisResponse("c1", response.course_id,
                                     response.student_statuses)]
    /\ UNCHANGED <<videoVars, classroom_data, history_data, added, fatigueVars, hubVars>>

RosterNext == Aggregate

RosterSpec == RosterInit /\ [][RosterNext]_vars

\* the aggregation has answered for a list of statuses
Aggregated == response.kind = "aggregate"

RECURSIVE ScoreTotal(_, _)
\* attention_score of the first k statuses, added up
ScoreTotal(statuses, k) ==
    IF k = 0 THEN 0 ELSE ScoreTotal(statuses, k - 1) + statuses[k].attention_score

\* the number of statuses that satisfy p
NumWith(statuses, p(_)) == Cardinality({i \in DOMAIN statuses : p(statuses[i])})

\* C26: overall_attention is the arithmetic mean of the attention_score of all
\* student statuses of the cycle (sum = overall_attention * n), 0 for an
\* empty roster, and so within [0, 100].
C26_OverallIsMean ==
    Aggregated =>
        LET statuses == response.student_statuses
            n == Len(statuses)
            overall == response.body.overall_attention
        IN  /\ overall.den > 0
            /\ n = 0 => overall.num = 0
            /\ n > 0 => ScoreTotal(statuses, n) * overall.den = overall.num * n
            /\ 0 <= overall.num /\ overall.num <= 1000 * overall.den

\* attention 100 and 62.5: the mean is 81.25
C26_Witness ==
    /\ Aggregated
    /\ Len(response.student_statuses) = 2
    /\ response.student_statuses[1].attention_score = 1000
    /\ response.student_statuses[2].attention_score = 625
    /\ response.body.overall_attention = [num |-> 1625, den |-> 2]

\* C27: for every non-empty roster teaching_recommendations holds the "good"
\* message iff no rule (mean attention, drowsy ratio, low-engagement ratio,
\* course-id keyword) fired, and then nothing else; each rule's message is
\* there whenever its own condition holds, whatever the other rules do; the
\* list is never empty.
C27_Recommendations ==
    Aggregated =>
        LET statuses == response.student_statuses
            n == Len(statuses)
            list == response.body.teaching_recommendations
            total == ScoreTotal(statuses, n)
            drowsy == NumWith(statuses, LAMBDA st : st.fatigue_level = "drowsy")
            low == NumWith(statuses, LAMBDA st : st.engagement_index < 400)
            isMath == response.course_id \in
                         {<<"m", "a", "t", "h", "1">>, <<"M", "a", "T", "H">>}
            fired == \/ total < 700 * n
                     \/ 10 * drowsy > n
                     \/ 2 * low > n
                     \/ isMath /\ total < 650 * n
        IN  /\ list # <<>>
            /\ n > 0 =>
                  /\ Has(list, "good") <=> ~fired
                  /\ Has(list, "good") => list = <<"good">>
                  /\ Has(list, "low_attention") <=> total < 500 * n
                  /\ Has(list, "some_distracted") <=>
                         500 * n <= total /\ total < 700 * n
                  /\ Has(list, "many_drowsy") <=> 10 * drowsy > 3 * n
                  /\ Has(list, "some_tired") <=>
                         10 * drowsy > n /\ 10 * drowsy <= 3 * n
                  /\ Has(list, "low_engagement") <=> 2 * low > n
                  /\ Has(list, "math_visual") <=> isMath /\ total < 650 * n

\* one drowsy student at attention 35 in a math course: four rules fire
C27_Witness ==
    /\ Aggregated
    /\ response.course_id = <<"M", "a", "T", "H">>
    /\ Len(response.student_statuses) = 1
    /\ response.student_statuses[1].fatigue_level = "drowsy"
    /\ response.body.teaching_recommendations =
          <<"low_attention", "many_drowsy", "low_engagement", "math_visual">>

\* C28: alert_flags holds the critical message iff at least one status has
\* engagement_index < 20, and the sleeping message iff more than 2 statuses
\* carry head_dropping; the critical message comes first, each message
\* reports the actual count, and the list is empty when neither holds.
C28_AlertFlags ==
    Aggregated =>
        LET statuses == response.student_statuses
            critical == NumWith(statuses, LAMBDA st : st.engagement_index < 200)
            sleeping == NumWith(statuses,
                                LAMBDA st : Has(st.behavior_tags, "head_dropping"))
        IN  response.body.alert_flags =
                (IF critical >= 1
                 THEN <<[message |-> "critical", count |-> critical]>> ELSE <<>>)
                \o (IF sleeping > 2
                    THEN <<[message |-> "sleeping", count |-> sleeping]>> ELSE <<>>)

\* exactly two students carry head_dropping, one of them at engagement 0:
\* the critical message alone
C28_Witness ==
    /\ Aggregated
    /\ NumWith(response.student_statuses,
               LAMBDA st : Has(st.behavior_tags, "head_dropping")) = 2
    /\ response.body.alert_flags = <<[message |-> "critical", count |-> 1]>>

\* the snapshots that are scheduled, stored as latest, kept in a history, or
\* sent to a subscriber on connect or by a broadcast
CycleSnapshots ==
    {tasks[t].data : t \in DOMAIN tasks}
    \cup {classroom_data[c] : c \in DOMAIN classroom_data}
    \cup UNION {{history_data[c][i] : i \in DOMAIN history_data[c]} :
                    c \in DOMAIN history_data}
    \cup UNION {{f[2] : f \in {g \in DOMAIN sent[w] :
                                  g[1] \in {"snapshot", "current"}}} : w \in Sockets}

\* statuses holds one status per record of students, in the same order
OnePerRecord(students, statuses) ==
    /\ Len(statuses) = Len(students)
    /\ \A i \in DOMAIN students :
          /\ statuses[i].student_id = students[i].student_id
          /\ statuses[i].attention_score =
                 AttentionPredict(students[i].landmarks, students[i].head_pose)

\* every snapshot of the cycle just answered carries the response's statuses,
\* and all snapshots of one cycle carry the same
C29_State ==
    /\ response # NoResponse /\ response.kind = "analysis" =>
          \A snapshot \in CycleSnapshots :
              snapshot.request = response.request =>
                  snapshot.student_statuses = response.body.student_statuses
    /\ \A x, y \in CycleSnapshots :
          x.request = y.request => x.student_statuses = y.student_statuses

\* a cycle answers with one status per record, and a scheduled snapshot is
\* never altered
C29_Step ==
    /\ response' # response /\ response'.kind = "analysis" =>
          OnePerRecord(response'.students, response'.body.student_statuses)
    /\ \A t \in DOMAIN tasks : t \in DOMAIN tasks' /\ tasks'[t].data = tasks[t].data

\* C29: the student_statuses of a cycle's response hold exactly one status per
\* input record, in the input order, never resorted, merged or deduplicated,
\* also when a student_id repeats in the batch; the snapshot that is
\* scheduled, stored and sent for that cycle carries the same sequence.
C29_StatusPerRecord == []C29_State /\ [][C29_Step]_vars

\* a batch of s2 before s1 for c1 answered, stored and sent to the subscriber
C29_Witness ==
    /\ response # NoResponse
    /\ response.kind = "analysis"
    /\ Len(response.students) = 2
    /\ response.students[1].student_id = "s2"
    /\ response.students[2].student_id = "s1"
    /\ response.body.student_statuses[1].student_id = "s2"
    /\ response.body.student_statuses[2].student_id = "s1"
    /\ "c1" \in DOMAIN classroom_data
    /\ classroom_data["c1"].request = response.request
    /\ \E f \in DOMAIN sent["w1"] :
          f[1] = "snapshot" /\ f[2].request = response.request

\* ---------------------------------------------------------------- QuerySpec
\* GET /classroom/{id}/status and GET /classroom/{id}/history beside analysis
\* cycles, one subscriber and the fatigue analyzer.

\* the ids queried: the classrooms of the cycles and one no cycle ever names
QueryIds == Classrooms \cup {"c9"}

\* the limits of the history queries
QueryLimits == {1, DefaultLimit}

\* history_data[classroom_id] of the defaultdict, which inserts a missing key
DictAfterIndex(d, k) == DictSet(d, k, DefaultGet(d, k))

\* the dict after d.get(k, default): as before
DictAfterGet(d, k) == d

\* GET /classroom/{id}/status
QueryStatus(id) ==
    /\ LET data == get_latest(id)
       IN  response' = IF data = <<>>
                       THEN [kind |-> "status", classroom_id |-> id,
                             status_code |-> 404]
                       ELSE [kind |-> "status", classroom_id |-> id,
                             status_code |-> 200, body |-> data[1]]
    /\ UNCHANGED <<videoVars, classroom_data, history_data, added, fatigueVars, hubVars>>

\* GET /classroom/{id}/history?limit=limit
QueryHistory(id, limit) ==
    /\ response' = [kind |-> "history", classroom_id |-> id, status_code |-> 200,
                    count |-> Len(get_history(id, DefaultLimit)),
                    data |-> get_history(id, limit)]
    /\ history_data' = DictAfterGet(history_data, id)
    /\ UNCHANGED <<videoVars, classroom_data, added, fatigueVars, hubVars>>

\* fatigue_analyzer.predict for a sample of s1
Sample(ear, mar) ==
    /\ NumCalls < MaxSamples
    /\ Predict("s1", ear, mar)
    /\ UNCHANGED <<videoVars, storeVars, hubVars, steps>>

QueryInit == HubInit

QueryNext ==
    \/ \E c \in Classrooms : NumCycles < MaxCycles /\ Analyze(c)
    \/ \E t \in DOMAIN tasks : SaveAndBroadcast(t)
    \/ \E t \in DOMAIN tasks : BroadcastSendDone(t)
    \/ \E c \in RoomsOf("w1") : WsConnect("w1", c)
    \/ WsSendDone("w1")
    \/ \E mar \in MarValues : Sample(10, mar)
    \/ \E id \in QueryIds : QueryStatus(id)
    \/ \E id \in QueryIds, limit \in QueryLimits : QueryHistory(id, limit)

QuerySpec == QueryInit /\ [][QueryNext]_vars

\* the step answers a query of the given kind
Answers(kind) == response' # response /\ response'.kind = kind

\* nothing but the response changes
NoSideEffect ==
    /\ classroom_data' = classroom_data
    /\ DOMAIN classroom_data' = DOMAIN classroom_data
    /\ history_data' = history_data
    /\ DOMAIN history_data' = DOMAIN history_data
    /\ ear_history' = ear_history
    /\ net_ear_history' = net_ear_history
    /\ net_mar_history' = net_mar_history
    /\ active_connections' = active_connections

\* C30: a latest-snapshot query for a classroom id without a stored snapshot
\* reports not-found, and neither it nor a history query for an unknown id
\* has a side effect: the latest and history maps with their key sets, the
\* fatigue windows and the connection sets are unchanged.
C30_UnknownClassroom ==
    [][/\ Answers("status") /\ response'.classroom_id \notin DOMAIN classroom_data
            => response'.status_code = 404 /\ NoSideEffect
       /\ Answers("history") /\ response'.classroom_id \notin DOMAIN history_data
            => response'.count = 0 /\ response'.data = <<>> /\ NoSideEffect]_vars

\* c1 has a snapshot, a subscriber and s1 a window; the status of c2 is asked
C30_Witness ==
    /\ response = [kind |-> "status", classroom_id |-> "c2", status_code |-> 404]
    /\ DOMAIN classroom_data = {"c1"}
    /\ DOMAIN history_data = {"c1"}
    /\ DOMAIN active_connections = {"c1"}
    /\ DOMAIN ear_history = {"s1"}

\* the classroom has no connection: never subscribed to, or all of them gone
ZeroConnections(c) == DefaultGet(active_connections, c) = <<>>

\* task t's save_and_broadcast calls broadcast in this step
Broadcasts(t) ==
    /\ tasks[t].pc = "scheduled"
    /\ t \in DOMAIN tasks'
    /\ tasks'[t].pc # "scheduled"

\* C31: broadcast(c, m) for a classroom with zero connections (never
\* subscribed, or all subscribers gone) is a no-op: no send is attempted, no
\* error is raised, and the connection map is left unchanged.
C31_EmptyBroadcastNoOp ==
    [][\A t \in DOMAIN tasks :
          Broadcasts(t) /\ ZeroConnections(tasks[t].classroom) =>
              /\ tasks'[t].pc = "done"
              /\ returned'.task = t
              /\ returned'.raised = {}
              /\ returned'.delivered = {}
              /\ active_connections' = active_connections
              /\ DOMAIN active_connections' = DOMAIN active_connections
              /\ sent' = sent
              /\ ws_frame' = ws_frame
              /\ send_failed' = send_failed]_vars

\* a broadcast has returned for a classroom whose only subscriber had left
C31_Witness ==
    /\ returned.task # 0
    /\ returned.before = <<>>
    /\ returned.after = <<>>
    /\ tasks[returned.task].pc = "done"
    /\ returned.classroom \in DOMAIN active_connections
    /\ active_connections[returned.classroom] = <<>>

\* every sample of the window is a closed eye (below 0.2), and there are at
\* least 10 of them
AllClosed(window) ==
    /\ Len(window) >= 10
    /\ \A i \in DOMAIN window : window[i] < 20

\* C32: whenever every ear sample buffered for a student is below 0.2 and at
\* least 10 samples are buffered, predict returns "drowsy" whatever the mar
\* values are, in both FatigueAnalyzer implementations.
C32_AllClosedIsDrowsy ==
    fatigue # NoCall =>
        /\ AllClosed(ear_history[fatigue.student]) => fatigue.main = "drowsy"
        /\ AllClosed(net_ear_history[fatigue.student]) => fatigue.net = "drowsy"

\* 30 consecutive samples of ear 0.1 while yawning (mar 0.9)
C32_Witness ==
    /\ fatigue # NoCall
    /\ fatigue.mar = 90
    /\ Len(ear_history[fatigue.student]) = 30
    /\ AllClosed(ear_history[fatigue.student])
    /\ AllClosed(net_ear_history[fatigue.student])
    /\ mar_samples[fatigue.student] = Const(30, 90)
    /\ fatigue.main = "drowsy"
    /\ fatigue.net = "drowsy"

\* C33: through the loop of /analyze, a student with yaw = 50, pitch = 0, no
\* full face mesh and fatigue alert gets attention_score 100 - min((50 - 15)
\* * 1.5, 40) = 60, behavior_tags exactly [turning_around], engagement_index
\* 55, and suggestions that include the discipline message.
C33_TurnedAwayStudent ==
    /\ response.kind = "status_built"
    /\ response.head_pose = [yaw |-> 50, pitch |-> 0]
    /\ response.mesh.count <= 468
    /\ response.status.fatigue_level = "alert"
    => /\ response.status.attention_score = 600
       /\ response.status.behavior_tags = <<"turning_around">>
       /\ response.status.engagement_index = 550
       /\ Has(response.status.suggestions, "discipline")

\* that student's status has been built
C33_Witness ==
    /\ response.kind = "status_built"
    /\ response.head_pose = [yaw |-> 50, pitch |-> 0]
    /\ response.mesh.count = 0
    /\ response.status.fatigue_level = "alert"
    /\ response.status.engagement_index = 550
    /\ response.status.suggestions = <<"discipline">>

\* --------------------------------------------------------------- StreakSpec
\* Consecutive /analyze cycles of classroom c1 that each carry one record of
\* student s1 with ear 0.1 and mar 0.1, under any head pose, which the student
\* holds along the cycles. The deferred save_and_broadcast tasks are left
\* waiting: the loop of analyze_classroom reads neither the store nor the
\* connections.
StreakPoses == {[yaw |-> y, pitch |-> q] : y \in {0, 30, 50}, q \in {0, 30, 40}}

StreakInit == HubInit

StreakNext ==
    \E head_pose \in StreakPoses, course_id \in Courses :
        /\ NumRequests < MaxStreak
        /\ response # NoResponse => head_pose = response.students[1].head_pose
        /\ AnalyzeBatch("c1", course_id,
                        <<StudentData("s1", NoMesh, head_pose, 10, 10)>>)

StreakSpec == StreakInit /\ [][StreakNext]_vars

\* C34: a student for whom 15 consecutive cycles all carried ear = 0.1 is
\* classified drowsy in the 15th cycle, its tags include eyes_closed, and its
\* engagement_index equals max(attention_score - 30, 0), for every head pose
\* supplied for that student.
C34_DrowsyAfterFifteen ==
    response # NoResponse /\ response.kind = "analysis" /\ response.request = 15 =>
        LET status == response.body.student_statuses[1]
        IN  /\ status.fatigue_level = "drowsy"
            /\ Has(status.behavior_tags, "eyes_closed")
            /\ status.engagement_index = Max(status.attention_score - 300, 0)

\* ----------------------------------------------------------------- SaveSpec
\* More analysis cycles than a history ring holds, their save_and_broadcast
\* tasks run in any order, no subscriber.
MaxSaves == MaxHistory + 2

SaveInit == HubInit

SaveNext ==
    \/ \E c \in Classrooms : NumCycles < MaxSaves /\ Analyze(c)
    \/ \E t \in DOMAIN tasks : SaveAndBroadcast(t)

SaveSpec == SaveInit /\ [][SaveNext]_vars

C36_AttentionAtLeastTwenty ==
    /\ response.kind = "attention" =>
          LET unclipped == 1000 - YawPenalty(PoseGet(response.head_pose, "yaw"))
                                - PitchPenalty(PoseGet(response.head_pose, "pitch"))
                                - MeshPenaltyOf(response.mesh)
          IN  /\ response.score >= 200
              /\ response.net >= 200
              /\ response.score = unclipped
              /\ response.net = unclipped
    /\ response.kind = "status_built" =>
          /\ response.status.attention_score >= 200
          /\ Has(response.status.suggestions, "urgent") =>
                response.status.attention_score < 400

\* every penalty at once: the status of a student at attention 20 carries the
\* urgent suggestion
C36_Witness ==
    /\ response.kind = "status_built"
    /\ response.head_pose = [yaw |-> 50, pitch |-> 50]
    /\ response.mesh.count > 468
    /\ response.status.attention_score = 200
    /\ Has(response.status.suggestions, "urgent")

\* C37: an /analyze cycle that aborts with an internal computation error at
\* the k-th student leaves every student's fatigue window as it was before the
\* cycle: no ear/mar sample of the aborted batch, those of students 1..k-1
\* included, is retained.
C37_AbortKeepsWindows ==
    [][AbortStep => ear_history' = ear_history]_vars

\* the eye ratios a batch submits under student_id s, in order
RECURSIVE EarsOf(_, _)
EarsOf(students, s) ==
    IF students = <<>> THEN <<>>
    ELSE IF Head(students).student_id = s
         THEN <<Head(students).eye_aspect_ratio>> \o EarsOf(Tail(students), s)
         ELSE EarsOf(Tail(students), s)

\* C38: the fatigue window is keyed by student_id alone and is never evicted:
\* the window of a student_id holds the samples submitted under that id by the
\* cycles of every classroom (the newest 30 of them), a cycle for any
\* classroom appends its samples to the window the id already has, and the
\* set of student_ids holding a window only grows.
C38_SharedWindowNeverEvicted ==
    /\ [](/\ DOMAIN ear_history \subseteq Students
          /\ \A s \in Students :
                DefaultGet(ear_history, s) = LastK(ear_samples[s], MainEarMaxLen))
    /\ [][/\ DOMAIN ear_history \subseteq DOMAIN ear_history'
          /\ (response' # response /\ response'.kind = "analysis") =>
                \A s \in Students :
                    DefaultGet(ear_history', s) =
                        LastK(DefaultGet(ear_history, s)
                                \o EarsOf(response'.students, s), MainEarMaxLen)]_vars

\* s1 was analysed in a cycle of c1, now stored as the latest snapshot of c1,
\* and again in a cycle of c2: its one window holds both samples
C38_Witness ==
    /\ "c1" \in DOMAIN classroom_data
    /\ classroom_data["c1"].request = 1
    /\ Len(classroom_data["c1"].student_statuses) = 1
    /\ classroom_data["c1"].student_statuses[1].student_id = "s1"
    /\ response.kind = "analysis"
    /\ response.request = 2
    /\ response.body.classroom_id = "c2"
    /\ Len(response.students) = 1
    /\ response.students[1].student_id = "s1"
    /\ Len(ear_history["s1"]) = 2

\* ---------------------------------------------------------------- VideoSpec
\* The video analysis service: uploads, POST /api/analyze, POST /api/control
\* and the simulate_analysis tasks on one event loop. No websocket subscribes
\* to a video, so a task suspends only in its asyncio.sleep. Every upload is
\* a video of at least one frame. A result is identified by its frame_number;
\* the random detections are left out.
Videos == {"v1", "v2"}

\* the frames of the longest uploaded video
MaxFrames == 2
\* simulate_analysis tasks created in one run
MaxVideoTasks == 2
\* requests to the video service in one run
MaxVideoRequests == 5

\* if frame_count >= 1000: break
FrameLimit == 1000

\* the action field of POST /api/control; "rewind" stands for any other word
ControlActions == {"pause", "resume", "stop", "restart", "rewind"}

NumVideoRequests == video_response.request

VideoAnswer(endpoint, action, video_id, status_code) ==
    [request |-> NumVideoRequests + 1, endpoint |-> endpoint, action |-> action,
     video_id |-> video_id, status_code |-> status_code]

\* POST /api/upload of a video of frame_count frames: generate_id() is an id
\* no video has yet
UploadVideo(video_id, frame_count) ==
    /\ video_id \notin DOMAIN analysis_states
    /\ analysis_states' =
          DictSet(analysis_states, video_id,
                  [status |-> "uploaded", progress |-> <<0, 1>>, results |-> <<>>,
                   total_frames |-> frame_count, processed_frames |-> 0])
    /\ video_response' = VideoAnswer("upload", "none", video_id, 200)
    /\ UNCHANGED <<storeVars, fatigueVars, hubVars, sim_tasks>>

\* POST /api/analyze
AnalyzeVideo(video_id) ==
    /\ IF video_id \notin DOMAIN analysis_states
       THEN /\ video_response' = VideoAnswer("analyze", "none", video_id, 404)
            /\ UNCHANGED <<analysis_states, sim_tasks>>
       ELSE IF analysis_states[video_id].status \in {"processing", "completed"}
       THEN /\ video_response' = VideoAnswer("analyze", "none", video_id, 400)
            /\ UNCHANGED <<analysis_states, sim_tasks>>
       ELSE /\ analysis_states' =
                  [analysis_states EXCEPT ![video_id].status = "processing"]
            /\ sim_tasks' = Append(sim_tasks,
                                   [video_id |-> video_id, pc |-> "created",
                                    frame_count |-> 0,
                                    total_frames |-> analysis_states[video_id].total_frames])
            /\ video_response' = VideoAnswer("analyze", "none", video_id, 200)
    /\ UNCHANGED <<storeVars, fatigueVars, hubVars>>

\* POST /api/control
ControlAnalysis(action, video_id) ==
    /\ IF action = "pause" /\ video_id \in DOMAIN analysis_states
       THEN /\ analysis_states' =
                  [analysis_states EXCEPT ![video_id].status = "paused"]
            /\ video_response' = VideoAnswer("control", action, video_id, 200)
       ELSE IF action = "resume" /\ video_id \in DOMAIN analysis_states
       THEN /\ analysis_states' =
                  [analysis_states EXCEPT ![video_id].status = "processing"]
            /\ video_response' = VideoAnswer("control", action, video_id, 200)
       ELSE IF action = "stop" /\ video_id \in DOMAIN analysis_states
       THEN /\ analysis_states' =
                  [analysis_states EXCEPT ![video_id].status = "stopped"]
            /\ video_response' = VideoAnswer("control", action, video_id, 200)
       ELSE IF action = "restart" /\ video_id \in DOMAIN analysis_states
       THEN /\ analysis_states' =
                  [analysis_states EXCEPT ![video_id].status = "processing",
                                          ![video_id].results = <<>>,
                                          ![video_id].processed_frames = 0,
                                          ![video_id].progress = <<0, 1>>]
            /\ video_response' = VideoAnswer("control", action, video_id, 200)
       ELSE /\ video_response' = VideoAnswer("control", action, video_id, 400)
            /\ UNCHANGED analysis_states
    /\ UNCHANGED <<storeVars, fatigueVars, hubVars, sim_tasks>>

\* the while condition of simulate_analysis and the cap.read() that follows
\* it, for a task that has read frame_count frames
LoopGoesOn(state, task, frame_count) ==
    /\ state.status = "processing"
    /\ frame_count < task.total_frames

\* lines 187-190 once the loop is left: the status becomes "completed"
Completed(state) == [state EXCEPT !.status = "completed"]

\* simulate_analysis from its first statement to its first asyncio.sleep, or
\* to its end if the video has no frame
SimStart(t) ==
    LET task == sim_tasks[t]
        state == [analysis_states[task.video_id] EXCEPT
                     !.status = "processing",
                     !.total_frames = task.total_frames,
                     !.processed_frames = 0]
    IN  /\ task.pc = "created"
        /\ IF LoopGoesOn(state, task, 0)
           THEN /\ analysis_states' = [analysis_states EXCEPT ![task.video_id] = state]
                /\ sim_tasks' = [sim_tasks EXCEPT ![t].pc = "sleeping"]
           ELSE /\ analysis_states' =
                      [analysis_states EXCEPT ![task.video_id] = Completed(state)]
                /\ sim_tasks' = [sim_tasks EXCEPT ![t].pc = "done"]
        /\ UNCHANGED <<storeVars, fatigueVars, hubVars, video_response>>

\* simulate_analysis from the return of asyncio.sleep to the next sleep, or to
\* its end: the result of the frame read before the sleep is appended, then
\* the frame limit and the while condition are evaluated
SimWake(t) ==
    LET task == sim_tasks[t]
        frame_count == task.frame_count
        state == [analysis_states[task.video_id] EXCEPT
                     !.results = Append(@, frame_count),
                     !.processed_frames = frame_count + 1,
                     !.progress = <<frame_count + 1, task.total_frames>>]
    IN  /\ task.pc = "sleeping"
        /\ IF frame_count + 1 < FrameLimit /\ LoopGoesOn(state, task, frame_count + 1)
           THEN /\ analysis_states' = [analysis_states EXCEPT ![task.video_id] = state]
                /\ sim_tasks' = [sim_tasks EXCEPT ![t].frame_count = frame_count + 1]
           ELSE /\ analysis_states' =
                      [analysis_states EXCEPT ![task.video_id] = Completed(state)]
                /\ sim_tasks' = [sim_tasks EXCEPT ![t].frame_count = frame_count + 1,
                                                  ![t].pc = "done"]
        /\ UNCHANGED <<storeVars, fatigueVars, hubVars, video_response>>

VideoInit == HubInit

\* asyncio.create_task queues the first step of the new task on the event
\* loop, which runs it before it reads the data of any later request: a
\* request is handled only when no task waits for its first step
Accepting == \A t \in DOMAIN sim_tasks : sim_tasks[t].pc # "created"

VideoNext ==
    \/ \E video_id \in Videos, frame_count \in 1 .. MaxFrames :
          /\ NumVideoRequests < MaxVideoRequests
          /\ Accepting
          /\ UploadVideo(video_id, frame_count)
    \/ \E video_id \in Videos :
          /\ NumVideoRequests < MaxVideoRequests
          /\ Len(sim_tasks) < MaxVideoTasks
          /\ Accepting
          /\ AnalyzeVideo(video_id)
    \/ \E action \in ControlActions, video_id \in Videos :
          /\ NumVideoRequests < MaxVideoRequests
          /\ Accepting
          /\ ControlAnalysis(action, video_id)
    \/ \E t \in DOMAIN sim_tasks : SimStart(t)
    \/ \E t \in DOMAIN sim_tasks : SimWake(t)

VideoSpec == VideoInit /\ [][VideoNext]_vars

\* the simulate_analysis tasks of a video that have not ended
ActiveTasks(video_id) ==
    {t \in DOMAIN sim_tasks :
        sim_tasks[t].video_id = video_id /\ sim_tasks[t].pc # "done"}

\* the step is an accepted request that ends the pause of the video: a
\* "resume", "stop" or "restart", or a new /api/analyze, which starts the
\* analysis again
Releases(video_id) ==
    /\ video_response' # video_response
    /\ video_response'.video_id = video_id
    /\ \/ /\ video_response'.endpoint = "control"
          /\ video_response'.action \in {"resume", "stop", "restart"}
       \/ video_response'.endpoint = "analyze"

\* C39: after the control action "pause" on a video whose analysis is
\* running, the status stays "paused", frame processing does not advance and
\* the status is not turned into "completed", until a "resume", "stop" or
\* "restart" action is issued.
C39_PauseHolds ==
    [][\A video_id \in DOMAIN analysis_states :
          (/\ analysis_states[video_id].status = "paused"
           /\ ActiveTasks(video_id) # {}
           /\ ~Releases(video_id)) =>
              /\ analysis_states'[video_id].status = "paused"
              /\ analysis_states'[video_id].results = analysis_states[video_id].results
              /\ analysis_states'[video_id].processed_frames =
                    analysis_states[video_id].processed_frames]_vars

\* the videos for which /api/analyze has started a task
Analysed == {sim_tasks[t].video_id : t \in DOMAIN sim_tasks}

\* C40: under any interleaving of /api/analyze and /api/control requests with
\* the running task, every video under analysis whose status is "processing"
\* has exactly one active simulate_analysis task: never two tasks appending
\* results for the same video_id, and never a "processing" status with no
\* task left to complete it.
C40_OneTaskPerProcessing ==
    \A video_id \in Analysed :
        analysis_states[video_id].status = "processing" =>
            Cardinality(ActiveTasks(video_id)) = 1

====
